---- MODULE Spec2Model ----
(***************************************************************************)
(* A model of the tcp-info saver pipeline:                                 *)
(*   - inetdiag.ParsedMessage.Compare, the change classification           *)
(*     (src/inetdiag/inetdiag.go), as a pure operator on byte sequences;   *)
(*   - saver.Saver, its Connection map, the marshaller channels and the    *)
(*     marshaller goroutines (src/saver/saver.go), as a state machine.     *)
(* Go slices are modelled as sequences; index i of a slice is position     *)
(* i + 1 of the sequence.  An optional value (a nil pointer, a nil slice)  *)
(* is None, a present value x is Some(x).                                  *)
(***************************************************************************)
EXTENDS Integers, Sequences, FiniteSets, TLC

None == <<>>
Some(x) == <<x>>

Max(a, b) == IF a >= b THEN a ELSE b

(***************************************************************************)
(* inetdiag.go: constants                                                  *)
(***************************************************************************)
\* inet_diag.h attribute tags (iota)
INET_DIAG_INFO == 2

\* ChangeType (iota)
NoMajorChange == 0
IDiagStateChange == 1
NoTCPInfo == 2
NewAttribute == 3
LostAttribute == 4
AttributeLength == 5
StateOrCounterChange == 6
PacketCountChange == 7
PreviousWasNil == 8
Other == 9

\* unsafe.Sizeof(InetDiagMsg{}): 4 + 48 (InetDiagSockID) + 5 * 4 bytes
SizeofInetDiagMsg == 72
\* unix.RTA_ALIGNTO
RTA_ALIGNTO == 4
\* unsafe.Offsetof(syscall.TCPInfo{}.Last_data_sent): 8 one-byte fields, 9 uint32
lastDataSentOffset == 44
\* unsafe.Offsetof(syscall.TCPInfo{}.Pmtu): 4 more uint32 (the Last_* fields)
pmtuOffset == 60

\* tcp.TCPState values used by the saver
TCPState_ESTABLISHED == 1
TCPState_FIN_WAIT1 == 4

\* rtaAlignOf rounds a length up to a multiple of RTA_ALIGNTO.
rtaAlignOf(attrlen) == ((attrlen + RTA_ALIGNTO - 1) \div RTA_ALIGNTO) * RTA_ALIGNTO

(***************************************************************************)
(* A ParsedMessage is [RawIDM, Attributes].  RawIDM is the diagnostic      *)
(* header: its length in bytes and the fields the code reads from it.      *)
(* Attributes is the table indexed by tag; an absent tag is None and a     *)
(* present one is Some(bytes).                                             *)
(***************************************************************************)
\* RawInetDiagMsg.Parse: fails when the raw header is shorter than the aligned size.
RawIDMParseOK(raw) == raw.Len >= rtaAlignOf(SizeofInetDiagMsg)

\* a[from:] of a Go slice (from is a 0-based offset, from <= len(a))
SliceFrom(a, from) == SubSeq(a, from + 1, Len(a))
\* a[:to] of a Go slice
SliceTo(a, to) == SubSeq(a, 1, to)

\* The result of Compare: the ChangeType and the error; fault is TRUE when
\* the call ends in a runtime panic (index or slice bounds out of range).
Ret(ct, err) == [change |-> ct, err |-> err, fault |-> FALSE]
Fault == [change |-> NoMajorChange, err |-> "panic", fault |-> TRUE]

\* Attributes[tp] of a Go slice: TRUE when the index is in range.
InRange(attrs, tp) == tp < Len(attrs)
AttrAt(attrs, tp) == attrs[tp + 1]

\* The comparison of one tag in the loop over previous.Attributes:
\* "continue" when the loop goes on to the next tag.
CompareTag(prevAttrs, pmAttrs, tp) ==
    IF tp = INET_DIAG_INFO THEN "continue"
    ELSE IF ~InRange(pmAttrs, tp) THEN "fault"
    ELSE LET a == AttrAt(prevAttrs, tp)
             b == AttrAt(pmAttrs, tp)
         IN  IF a = None /\ b # None THEN "NewAttribute"
             ELSE IF a # None /\ b = None THEN "LostAttribute"
             ELSE IF a = None /\ b = None THEN "continue"
             ELSE IF Len(a[1]) # Len(b[1]) THEN "AttributeLength"
             ELSE IF a[1] # b[1] THEN "Other"
             ELSE "continue"

RECURSIVE AttrLoop(_, _, _)
\* for tp := range previous.Attributes, from tag tp on
AttrLoop(prevAttrs, pmAttrs, tp) ==
    IF tp >= Len(prevAttrs) THEN Ret(NoMajorChange, "nil")
    ELSE LET r == CompareTag(prevAttrs, pmAttrs, tp)
         IN  CASE r = "continue" -> AttrLoop(prevAttrs, pmAttrs, tp + 1)
               [] r = "fault" -> Fault
               [] r = "NewAttribute" -> Ret(NewAttribute, "nil")
               [] r = "LostAttribute" -> Ret(LostAttribute, "nil")
               [] r = "AttributeLength" -> Ret(AttributeLength, "nil")
               [] OTHER -> Ret(Other, "nil")

\* The INFO ranges Compare looks at: [pmtuOffset, end) first, then [0, lastDataSentOffset).
InfoTailDiffers(a, b) == SliceFrom(a, pmtuOffset) # SliceFrom(b, pmtuOffset)
InfoHeadDiffers(a, b) == SliceTo(a, lastDataSentOffset) # SliceTo(b, lastDataSentOffset)

\* (pm *ParsedMessage) Compare(previous *ParsedMessage) (ChangeType, error)
Compare(pm, previous) ==
    IF previous = None THEN Ret(PreviousWasNil, "nil")
    ELSE LET prev == previous[1] IN
      IF ~RawIDMParseOK(prev.RawIDM) THEN Ret(NoMajorChange, "ErrParseFailed")
      ELSE IF ~RawIDMParseOK(pm.RawIDM) THEN Ret(NoMajorChange, "ErrParseFailed")
      ELSE IF prev.RawIDM.IDiagState # pm.RawIDM.IDiagState THEN Ret(IDiagStateChange, "nil")
      ELSE IF ~InRange(prev.Attributes, INET_DIAG_INFO) \/ ~InRange(pm.Attributes, INET_DIAG_INFO)
           THEN Fault
      ELSE LET a == AttrAt(prev.Attributes, INET_DIAG_INFO)
               b == AttrAt(pm.Attributes, INET_DIAG_INFO)
           IN  IF a = None \/ b = None THEN Ret(NoTCPInfo, "nil")
               ELSE IF Len(a[1]) < pmtuOffset \/ Len(b[1]) < pmtuOffset THEN Fault
               ELSE IF InfoTailDiffers(a[1], b[1]) THEN Ret(StateOrCounterChange, "nil")
               ELSE IF InfoHeadDiffers(a[1], b[1]) THEN Ret(StateOrCounterChange, "nil")
               ELSE AttrLoop(prev.Attributes, pm.Attributes, 0)

(***************************************************************************)
(* Bounds of the model                                                     *)
(***************************************************************************)
\* cookies are 0 .. MaxCookie (0 is the invalid cookie)
MaxCookie == 2
\* NewSaver is called with numMarshaller in 0 .. MaxMarshallers
MaxMarshallers == 2
\* snapshots handed to swapAndQueue over the life of the Saver
MaxMsgs == 2
\* batches received from the reader channel
MaxBatches == 3
\* the clock runs from 0 to MaxTime, in units of ten minutes
MaxTime == 2
\* failures of Rotate (MkdirAll or zstd.NewWriter returning an error)
MaxRotateFailures == 1

Cookies == 0 .. MaxCookie
TCPStates == {TCPState_ESTABLISHED, TCPState_FIN_WAIT1}
\* Contents of the INFO attribute of the snapshots the collector delivers:
\* variant 0 is the base, variant 1 differs from it in a Last_* field only,
\* variant 2 differs from it in a counter after Pmtu.
Variants == {0, 1, 2}

(***************************************************************************)
(* saver.go: constants                                                     *)
(***************************************************************************)
\* make(chan Task, 100)
ChanCap == 100
\* conn.Expiration.Add(10 * time.Minute): one clock unit
RotatePeriod == 1
\* a nil io.WriteCloser
NilWriter == 0

VARIABLES
    numMarshaller,  \* len(svr.MarshalChans)
    MarshalChans,   \* worker -> the tasks buffered in its channel
    chanClosed,     \* worker -> close() was called on its channel
    wstate,         \* worker -> "run" | "done" (wg.Done called) | "fatal"
    Connections,    \* svr.Connections: cookie -> None | Some(Connection)
    cache,          \* svr.cache: cookie -> None | Some(retained snapshot)
    touched,        \* svr.cache: cookies updated in the current cycle
    stats,          \* svr.stats
    NewFileCount,   \* metrics.NewFileCount
    files,          \* every sink zstd.NewWriter returned, in order of creation
    pc,             \* where the Saver goroutine is in MessageSaverLoop / Close
    todo,           \* cookies the current range loop still has to visit
    cycles,         \* batches received so far
    now,            \* time.Now() as the last call of swapAndQueue read it
    rotateFailures, \* failures of Rotate so far
    enq,            \* history: cookie -> ids of the snapshots queue sent, in order
    written,        \* history: cookie -> ids of the snapshots the marshallers wrote, in order
    last,           \* history: the last call the Saver goroutine made
    cmpPrev, cmpCur, cmpResult, \* the inputs and the result of a Compare call
    attrIn, attrOut,            \* the input and the result of a ParseRouteAttr call
    frame, skipLocal, parsed,   \* the inputs and the result of a Parse call
    delivered,                  \* history: the frames Parse was called with
    rotIn, rotOut               \* the inputs and the result of a Rotate call

saverVars == <<numMarshaller, MarshalChans, chanClosed, wstate, Connections, cache,
               touched, stats, NewFileCount, files, pc, todo, cycles, now,
               rotateFailures, enq, written, last>>
cmpVars == <<cmpPrev, cmpCur, cmpResult>>
attrVars == <<attrIn, attrOut>>
parseVars == <<frame, skipLocal, parsed, delivered>>
rotVars == <<rotIn, rotOut>>
callVars == <<cmpVars, attrVars, parseVars, rotVars>>
vars == <<numMarshaller, MarshalChans, chanClosed, wstate, Connections, cache,
          touched, stats, NewFileCount, files, pc, todo, cycles, now,
          rotateFailures, enq, written, last, cmpPrev, cmpCur, cmpResult,
          attrIn, attrOut, frame, skipLocal, parsed, delivered, rotIn, rotOut>>

Workers == 0 .. numMarshaller - 1

(***************************************************************************)
(* Snapshots of the saver model.  A snapshot is [cookie, state, v]; Expand *)
(* gives the ParsedMessage it stands for.                                  *)
(***************************************************************************)
\* The snapshots the collector delivers: an established connection with any
\* of the INFO contents, or a closing connection.
Msgs == {m \in [cookie : Cookies, state : TCPStates, v : Variants] :
            m.state = TCPState_FIN_WAIT1 => m.v = 0}

\* an INFO value of len bytes, all 0 except the bytes at the offsets in ones
Blob(len, ones) == [i \in 1 .. len |-> IF (i - 1) \in ones THEN 1 ELSE 0]

InfoLen == pmtuOffset + 4
InfoOf(v) == Blob(InfoLen, IF v = 1 THEN {lastDataSentOffset}
                           ELSE IF v = 2 THEN {InfoLen - 1} ELSE {})

Expand(m) ==
    [RawIDM |-> [Len |-> rtaAlignOf(SizeofInetDiagMsg), IDiagState |-> m.state,
                 Cookie |-> m.cookie],
     Attributes |-> <<None, None, Some(InfoOf(m.v))>>]

(***************************************************************************)
(* saver.go: Task, Connection, Rotate, queue, endConn                      *)
(***************************************************************************)
\* Task{Message, Writer}; a snapshot travels as its cookie and its id (the
\* value of stats.TotalCount when swapAndQueue took it).
Task(message, writer) == [Message |-> message, Writer |-> writer]

\* q <- task
Send(chans, q, task) == [chans EXCEPT ![q] = Append(@, task)]

\* Fault injection for C3: the close task is never sent.
SendCloseDropped(chans, q, writer) == chans

\* q <- Task{nil, conn.Writer}
SendClose(chans, q, writer) == Send(chans, q, Task(None, writer))

\* Fault injection for C5: queue without the cookie check.
CookieNeverInvalid(cookie) == FALSE

\* queue: if cookie == 0 { return errors.New("Cookie = 0") }
CookieInvalid(cookie) == cookie = 0

\* Fault injection for C2: the channel is chosen by the clock, not the cookie.
WorkerByClock(cookie) == (cookie + now) % numMarshaller

\* queue and endConn: the channel of cookie % len(svr.MarshalChans)
WorkerOf(cookie) == cookie % numMarshaller

\* Fault injection for C7: only states after FIN_WAIT1 count as closing.
AlreadyClosingAfterFinWait1(pm) == pm.state > TCPState_FIN_WAIT1

\* queue: msg.InetDiagMsg.IDiagState >= uint8(tcp.TCPState_FIN_WAIT1)
AlreadyClosing(pm) == pm.state >= TCPState_FIN_WAIT1

\* newConnection: ID from the message, Sequence 0, Expiration time.Now(), no Writer
newConnection(pm, t) ==
    [ID |-> pm.cookie, Sequence |-> 0, Expiration |-> t, Writer |-> NilWriter]

\* Fault injection for C25: rotation is due at the expiration already.
RotationDueAtExpiration(conn, t) == t >= conn.Expiration /\ conn.Writer # NilWriter

\* queue: time.Now().After(conn.Expiration) && conn.Writer != nil
RotationDue(conn, t) == t > conn.Expiration /\ conn.Writer # NilWriter

\* The sink zstd.NewWriter returns for "<datePath>/<uuid>.<Sequence>.jsonl.zst",
\* after writeHeader wrote the metadata line and "\n" to it.  All StartTimes
\* of the model fall on the same day, so a file is named by cookie and Sequence.
\* closes counts the calls of Close, werr the calls of Write that returned an error,
\* jerr the snapshots for this sink that json.Marshal returned an error for.
NewSink(conn) ==
    [cookie |-> conn.ID, seq |-> conn.Sequence, open |-> TRUE, closes |-> 0, werr |-> 0,
     jerr |-> 0,
     lines |-> <<[kind |-> "meta", n |-> conn.Sequence, nl |-> TRUE]>>]

\* NewSaver: ageLim := 10 * time.Minute, the FileAgeLimit of the Saver, in
\* units of ten minutes
ageLim == 1

\* Connection.Rotate when MkdirAll and zstd.NewWriter succeed: the record after it.
\* The FileAgeLimit argument is not used: ten minutes are added whatever it is.
Rotate(conn, writer, FileAgeLimit) ==
    [conn EXCEPT !.Writer = writer,
                 !.Expiration = @ + RotatePeriod,
                 !.Sequence = @ + 1]

\* Fault injection for C19: a failed Rotate still moves on to the next file.
RotateFailedAdvancing(conn) == [conn EXCEPT !.Sequence = @ + 1]

\* zstd.NewWriter (not among the source files): with an error it returns no sink
OpenFailedSink == NilWriter

\* Connection.Rotate when MkdirAll or zstd.NewWriter returns an error: the
\* record after it.  MkdirAll failing returns before Writer is assigned, and
\* Rotate is called with a nil Writer only; zstd.NewWriter failing assigns
\* the sink it returns with its error.
RotateFailed(conn) == [conn EXCEPT !.Writer = OpenFailedSink]

\* Fault injection for C14: the record is created before the marshallers are counted.
NoMarshallersAfterRecord(pm, t, same) ==
    [same EXCEPT !.err = "ErrNoMarshallers",
                 !.Connections = [same.Connections EXCEPT
                                     ![pm.cookie] = Some(newConnection(pm, t))]]

\* queue: if len(svr.MarshalChans) < 1 { return ErrNoMarshallers }, where
\* same is the result that leaves the Saver as it is
NoMarshallersResult(pm, t, same) == [same EXCEPT !.err = "ErrNoMarshallers"]

\* What one call of queue does to the Saver, as a record of the new values
\* and the error returned ("nil" for no error).  rotateOK says whether Rotate,
\* if it is called, succeeds; t is what time.Now() returns.
queue(pm, id, t, rotateOK) ==
    LET cookie == pm.cookie
        same == [err |-> "nil", Connections |-> Connections, MarshalChans |-> MarshalChans,
                 files |-> files, NewFileCount |-> NewFileCount, rotated |-> FALSE,
                 failed |-> FALSE, sent |-> FALSE]
    IN  IF CookieInvalid(cookie) THEN [same EXCEPT !.err = "Cookie = 0"]
        ELSE IF numMarshaller < 1 THEN NoMarshallersResult(pm, t, same)
        ELSE IF Connections[cookie] = None /\ AlreadyClosing(pm) THEN same
        ELSE
          LET q == WorkerOf(cookie)
              conn0 == IF Connections[cookie] = None THEN newConnection(pm, t)
                       ELSE Connections[cookie][1]
              due == RotationDue(conn0, t)
              chans1 == IF due THEN SendClose(MarshalChans, q, conn0.Writer)
                        ELSE MarshalChans
              conn1 == IF due THEN [conn0 EXCEPT !.Writer = NilWriter] ELSE conn0
          IN  IF conn1.Writer = NilWriter /\ ~rotateOK
              THEN [same EXCEPT !.err = "Rotate failed",
                                !.Connections = [Connections EXCEPT
                                                    ![cookie] = Some(RotateFailed(conn1))],
                                !.MarshalChans = chans1,
                                !.failed = TRUE]
              ELSE
                LET rot == conn1.Writer = NilWriter
                    files1 == IF rot THEN Append(files, NewSink(conn1)) ELSE files
                    conn2 == IF rot THEN Rotate(conn1, Len(files1), ageLim) ELSE conn1
                IN  [err |-> "nil",
                     Connections |-> [Connections EXCEPT ![cookie] = Some(conn2)],
                     MarshalChans |-> Send(chans1, q,
                                           Task(Some([cookie |-> cookie, id |-> id]), conn2.Writer)),
                     files |-> files1,
                     NewFileCount |-> IF rot THEN NewFileCount + 1 ELSE NewFileCount,
                     rotated |-> rot,
                     failed |-> FALSE,
                     sent |-> TRUE]

\* endConn: if ok && conn.Writer != nil
HasWriter(cookie) == Connections[cookie] # None /\ Connections[cookie][1].Writer # NilWriter

\* Every channel has room for what a call wants to send (a send on a full
\* channel blocks the Saver goroutine until the marshaller takes a task).
HasRoom(chans) == \A w \in Workers : Len(chans[w]) <= ChanCap

\* Fault injection for C28: endConn sends the close-task and keeps the record.
endConnKeepsRecord(cookie) ==
    IF HasWriter(cookie)
    THEN [Connections |-> Connections,
          MarshalChans |-> SendClose(MarshalChans, WorkerOf(cookie),
                                     Connections[cookie][1].Writer)]
    ELSE [Connections |-> Connections, MarshalChans |-> MarshalChans]

\* What one call of endConn does when len(svr.MarshalChans) > 0.
endConn(cookie) ==
    IF HasWriter(cookie)
    THEN [Connections |-> [Connections EXCEPT ![cookie] = None],
          MarshalChans |-> SendClose(MarshalChans, WorkerOf(cookie),
                                     Connections[cookie][1].Writer)]
    ELSE [Connections |-> Connections, MarshalChans |-> MarshalChans]

(***************************************************************************)
(* cache.Cache (not among the source files): Update and EndCycle           *)
(***************************************************************************)
\* Update records the cookie as touched, replaces the retained snapshot and
\* returns the previous one.
CacheUpdate(pm) == [cache EXCEPT ![pm.cookie] = Some(pm)]

\* Fault injection for C22: EndCycle returns every retained snapshot.
ResidualEveryRetained == {c \in Cookies : cache[c] # None}

\* EndCycle returns the retained snapshots whose cookies were not touched
\* in the cycle and removes them.
Residual == {c \in Cookies : cache[c] # None /\ c \notin touched}

(***************************************************************************)
(* The state after NewSaver(host, pod, n)                                  *)
(***************************************************************************)
NoCall == [op |-> "none", cookie |-> 0, state |-> 0, hadOld |-> FALSE,
           change |-> NoMajorChange, queued |-> FALSE, err |-> "nil"]

SaverInit(n) ==
    /\ numMarshaller = n
    /\ MarshalChans = [w \in 0 .. n - 1 |-> <<>>]
    /\ chanClosed = [w \in 0 .. n - 1 |-> FALSE]
    /\ wstate = [w \in 0 .. n - 1 |-> "run"]
    /\ Connections = [c \in Cookies |-> None]
    /\ cache = [c \in Cookies |-> None]
    /\ touched = {}
    /\ stats = [TotalCount |-> 0, NewCount |-> 0, DiffCount |-> 0, ExpiredCount |-> 0]
    /\ NewFileCount = 0
    /\ files = <<>>
    /\ pc = "recv"
    /\ todo = {}
    /\ cycles = 0
    /\ now = 0
    /\ rotateFailures = 0
    /\ enq = [c \in Cookies |-> <<>>]
    /\ written = [c \in Cookies |-> <<>>]
    /\ last = NoCall

CompareIdle ==
    /\ cmpPrev = None
    /\ cmpCur = None
    /\ cmpResult = None

\* no call of ParseRouteAttr on its own
AttrIdle ==
    /\ attrIn = <<>>
    /\ attrOut = None

\* no call of Parse
ParseIdle ==
    /\ frame = None
    /\ skipLocal = FALSE
    /\ parsed = None
    /\ delivered = {}

\* no call of Rotate on its own
RotateIdle ==
    /\ rotIn = None
    /\ rotOut = None

Init ==
    /\ \E n \in 0 .. MaxMarshallers : SaverInit(n)
    /\ CompareIdle
    /\ AttrIdle
    /\ ParseIdle
    /\ RotateIdle

(***************************************************************************)
(* MessageSaverLoop                                                        *)
(***************************************************************************)
\* msgs, ok := <-readerChannel, with ok
RecvBatch ==
    /\ pc = "recv"
    /\ cycles < MaxBatches
    /\ pc' = "batch"
    /\ cycles' = cycles + 1
    /\ UNCHANGED <<numMarshaller, MarshalChans, chanClosed, wstate, Connections, cache,
                   touched, stats, NewFileCount, files, todo, now, rotateFailures,
                   enq, written, last>>
    /\ UNCHANGED callVars

\* if msgs[i] == nil { log.Println("Error"); continue }
SkipNil ==
    /\ pc = "batch"
    /\ UNCHANGED vars

\* Fault injection for C8: every snapshot is handed to queue.
ShouldQueueAlways(old, change) == TRUE

\* swapAndQueue: old == nil, or pbtools.Compare(pm, old) > pbtools.NoMajorChange
ShouldQueue(old, change) == old = None \/ change > NoMajorChange

\* swapAndQueue(pm), with the call of queue it makes, at clock reading t
swapAndQueue(pm, t, rotateOK) ==
    /\ pc = "batch"
    /\ t >= now
    /\ now' = t
    /\ rotateOK \/ rotateFailures < MaxRotateFailures
    /\ LET old == cache[pm.cookie]
           id == stats.TotalCount + 1
           cmp == Compare(Expand(pm), IF old = None THEN None ELSE Some(Expand(old[1])))
           doQueue == ShouldQueue(old, cmp.change)
           r == queue(pm, id, t, rotateOK)
       IN  /\ cache' = CacheUpdate(pm)
           /\ touched' = touched \cup {pm.cookie}
           /\ stats' = [stats EXCEPT !.TotalCount = @ + 1,
                                     !.NewCount = IF old = None THEN @ + 1 ELSE @,
                                     !.DiffCount = IF old # None /\ doQueue THEN @ + 1 ELSE @]
           /\ IF old # None /\ cmp.fault
              THEN /\ pc' = "panic"
                   /\ last' = [op |-> "swapAndQueue", cookie |-> pm.cookie, state |-> pm.state,
                               hadOld |-> TRUE, change |-> cmp.change, queued |-> FALSE,
                               err |-> "panic"]
                   /\ UNCHANGED <<Connections, MarshalChans, files, NewFileCount,
                                  rotateFailures, enq>>
              ELSE IF doQueue
              THEN /\ rotateOK \/ r.failed
                   /\ HasRoom(r.MarshalChans)
                   /\ Connections' = r.Connections
                   /\ MarshalChans' = r.MarshalChans
                   /\ files' = r.files
                   /\ NewFileCount' = r.NewFileCount
                   /\ rotateFailures' = IF r.failed THEN rotateFailures + 1 ELSE rotateFailures
                   /\ enq' = IF r.sent
                             THEN [enq EXCEPT ![pm.cookie] = Append(@, id)] ELSE enq
                   /\ last' = [op |-> "swapAndQueue", cookie |-> pm.cookie, state |-> pm.state,
                               hadOld |-> old # None, change |-> cmp.change, queued |-> TRUE,
                               err |-> r.err]
                   /\ pc' = pc
              ELSE /\ rotateOK
                   /\ last' = [op |-> "swapAndQueue", cookie |-> pm.cookie, state |-> pm.state,
                               hadOld |-> TRUE, change |-> cmp.change, queued |-> FALSE,
                               err |-> "nil"]
                   /\ UNCHANGED <<Connections, MarshalChans, files, NewFileCount,
                                  rotateFailures, enq, pc>>
    /\ UNCHANGED <<numMarshaller, chanClosed, wstate, todo, cycles, written>>

\* svr.swapAndQueue(msgs[i]) for an entry of the batch that is not nil
SwapAndQueue(pm, t, rotateOK) ==
    /\ stats.TotalCount < MaxMsgs
    /\ swapAndQueue(pm, t, rotateOK)
    /\ UNCHANGED callVars

\* residual := svr.cache.EndCycle()
EndCycle ==
    /\ pc = "batch"
    /\ todo' = Residual
    /\ cache' = [c \in Cookies |-> IF c \in Residual THEN None ELSE cache[c]]
    /\ touched' = {}
    /\ pc' = IF Residual = {} THEN "recv" ELSE "residual"
    /\ last' = [NoCall EXCEPT !.op = "EndCycle"]
    /\ UNCHANGED <<numMarshaller, MarshalChans, chanClosed, wstate, Connections, stats,
                   NewFileCount, files, cycles, now, rotateFailures, enq, written>>
    /\ UNCHANGED callVars

\* svr.endConn(residual[i].InetDiagMsg.ID.Cookie()); svr.stats.ExpiredCount++
\* With no marshallers, cookie % 0 is a runtime panic.
EndConnResidual(cookie) ==
    /\ pc = "residual"
    /\ cookie \in todo
    /\ IF numMarshaller = 0
       THEN /\ pc' = "panic"
            /\ last' = [NoCall EXCEPT !.op = "endConn", !.cookie = cookie, !.err = "panic"]
            /\ UNCHANGED <<Connections, MarshalChans, stats, todo>>
       ELSE /\ HasRoom(endConn(cookie).MarshalChans)
            /\ Connections' = endConn(cookie).Connections
            /\ MarshalChans' = endConn(cookie).MarshalChans
            /\ stats' = [stats EXCEPT !.ExpiredCount = @ + 1]
            /\ todo' = todo \ {cookie}
            /\ pc' = IF todo' = {} THEN "recv" ELSE "residual"
            /\ last' = [NoCall EXCEPT !.op = "endConn", !.cookie = cookie]
    /\ UNCHANGED <<numMarshaller, chanClosed, wstate, cache, touched, NewFileCount, files,
                   cycles, now, rotateFailures, enq, written>>
    /\ UNCHANGED callVars

(***************************************************************************)
(* Close                                                                   *)
(***************************************************************************)
\* msgs, ok := <-readerChannel, with !ok: break and call svr.Close()
ChannelClosed ==
    /\ pc = "recv"
    /\ pc' = "closing"
    /\ todo' = {c \in Cookies : Connections[c] # None}
    /\ last' = [NoCall EXCEPT !.op = "Close"]
    /\ UNCHANGED <<numMarshaller, MarshalChans, chanClosed, wstate, Connections, cache,
                   touched, stats, NewFileCount, files, cycles, now, rotateFailures,
                   enq, written>>
    /\ UNCHANGED callVars

\* for i := range svr.Connections { svr.endConn(i) }
CloseEndConn(cookie) ==
    /\ pc = "closing"
    /\ cookie \in todo
    /\ numMarshaller > 0
    /\ HasRoom(endConn(cookie).MarshalChans)
    /\ Connections' = endConn(cookie).Connections
    /\ MarshalChans' = endConn(cookie).MarshalChans
    /\ todo' = todo \ {cookie}
    /\ last' = [NoCall EXCEPT !.op = "endConn", !.cookie = cookie]
    /\ UNCHANGED <<numMarshaller, chanClosed, wstate, cache, touched, stats, NewFileCount,
                   files, pc, cycles, now, rotateFailures, enq, written>>
    /\ UNCHANGED callVars

\* Fault injection for C13: Close goes on to wait without closing the channels.
CloseChansSkipped ==
    /\ pc = "closing"
    /\ todo = {}
    /\ pc' = "wait"
    /\ UNCHANGED <<numMarshaller, MarshalChans, chanClosed, wstate, Connections, cache,
                   touched, stats, NewFileCount, files, todo, cycles, now, rotateFailures,
                   enq, written, last>>
    /\ UNCHANGED callVars

\* for i := range svr.MarshalChans { close(svr.MarshalChans[i]) }
CloseChans ==
    /\ pc = "closing"
    /\ todo = {}
    /\ chanClosed' = [w \in Workers |-> TRUE]
    /\ pc' = "wait"
    /\ UNCHANGED <<numMarshaller, MarshalChans, wstate, Connections, cache, touched, stats,
                   NewFileCount, files, todo, cycles, now, rotateFailures, enq, written, last>>
    /\ UNCHANGED callVars

\* svr.Done.Wait() returns
WaitDone ==
    /\ pc = "wait"
    /\ \A w \in Workers : wstate[w] = "done"
    /\ pc' = "done"
    /\ UNCHANGED <<numMarshaller, MarshalChans, chanClosed, wstate, Connections, cache,
                   touched, stats, NewFileCount, files, todo, cycles, now, rotateFailures,
                   enq, written, last>>
    /\ UNCHANGED callVars

(***************************************************************************)
(* runMarshaller                                                           *)
(***************************************************************************)
\* Fault injection for C1: the channel hands out its newest task first.
ReceiveNewest(q) == [task |-> q[Len(q)], rest |-> SubSeq(q, 1, Len(q) - 1)]

\* task, ok := <-taskChan with ok: the oldest task buffered, and what stays behind
Receive(q) == [task |-> Head(q), rest |-> Tail(q)]

\* One iteration of the loop with a task received: Close, log.Fatal or Write.
Marshal(w) ==
    /\ w \in Workers
    /\ wstate[w] = "run"
    /\ MarshalChans[w] # <<>>
    /\ LET task == Receive(MarshalChans[w]).task IN
         /\ MarshalChans' = [MarshalChans EXCEPT ![w] = Receive(MarshalChans[w]).rest]
         /\ IF task.Message = None
            THEN /\ files' = [files EXCEPT ![task.Writer].open = FALSE,
                                           ![task.Writer].closes = @ + 1]
                 /\ UNCHANGED <<wstate, written>>
            ELSE IF task.Writer = NilWriter
            THEN /\ wstate' = [wstate EXCEPT ![w] = "fatal"]
                 /\ UNCHANGED <<files, written>>
            ELSE /\ files' = [files EXCEPT ![task.Writer].lines =
                                 Append(@, [kind |-> "snap", n |-> task.Message[1].id,
                                            nl |-> FALSE])]
                 /\ written' = [written EXCEPT ![task.Message[1].cookie] =
                                   Append(@, task.Message[1].id)]
                 /\ UNCHANGED wstate
    /\ UNCHANGED <<numMarshaller, chanClosed, Connections, cache, touched, stats,
                   NewFileCount, pc, todo, cycles, now, rotateFailures, enq, last>>
    /\ UNCHANGED callVars

\* task, ok := <-taskChan with !ok: the channel is closed and drained; wg.Done()
MarshallerDone(w) ==
    /\ w \in Workers
    /\ wstate[w] = "run"
    /\ chanClosed[w]
    /\ MarshalChans[w] = <<>>
    /\ wstate' = [wstate EXCEPT ![w] = "done"]
    /\ UNCHANGED <<numMarshaller, MarshalChans, chanClosed, Connections, cache, touched,
                   stats, NewFileCount, files, pc, todo, cycles, now, rotateFailures,
                   enq, written, last>>
    /\ UNCHANGED callVars

Next ==
    \/ RecvBatch
    \/ SkipNil
    \/ \E pm \in Msgs, t \in 0 .. MaxTime, rotateOK \in BOOLEAN : SwapAndQueue(pm, t, rotateOK)
    \/ EndCycle
    \/ \E c \in Cookies : EndConnResidual(c)
    \/ ChannelClosed
    \/ \E c \in Cookies : CloseEndConn(c)
    \/ CloseChans
    \/ WaitDone
    \/ \E w \in 0 .. MaxMarshallers - 1 : Marshal(w)
    \/ \E w \in 0 .. MaxMarshallers - 1 : MarshallerDone(w)

Spec == Init /\ [][Next]_vars

(***************************************************************************)
(* Compare on its own: the pairs (previous, pm) are drawn from bounded     *)
(* sets that straddle lastDataSentOffset and pmtuOffset, and CallCompare   *)
(* applies Compare to the pair.                                            *)
(***************************************************************************)
\* bytes in which the INFO value of pm differs from that of previous
MaxFlips == 2

\* lengths of an INFO value: shorter than pmtuOffset, exactly pmtuOffset, longer
InfoLens == {lastDataSentOffset + 6, pmtuOffset, InfoLen}
\* the offsets at which pm's INFO value may differ from previous's
Probes == {0, lastDataSentOffset - 1, lastDataSentOffset, pmtuOffset - 1, pmtuOffset,
           InfoLen - 1}
FlipSets(len) == {f \in SUBSET {o \in Probes : o < len} : Cardinality(f) <= MaxFlips}

\* values of an attribute other than INFO
OtherVals == {None, Some(<<7>>), Some(<<8>>), Some(<<7, 7>>)}

\* attribute tables: nil, too short for the INFO tag, up to INFO, up to VEGASINFO
Tables(infos) ==
    {<<>>, <<None, None>>}
      \cup {<<None, None, i>> : i \in infos}
      \cup {<<None, None, i, o>> : i \in infos, o \in OtherVals}

\* headers: one too short to parse, and parseable ones in either TCP state
Headers ==
    {[Len |-> SizeofInetDiagMsg - 1, IDiagState |-> TCPState_ESTABLISHED, Cookie |-> 1]}
      \cup {[Len |-> SizeofInetDiagMsg, IDiagState |-> st, Cookie |-> 1] : st \in TCPStates}

PrevInfos == {None} \cup {Some(Blob(l, {})) : l \in InfoLens}
CurInfos == {None} \cup UNION {{Some(Blob(l, f)) : f \in FlipSets(l)} : l \in InfoLens}

PrevMsgs == [RawIDM : Headers, Attributes : Tables(PrevInfos)]
CurMsgs == [RawIDM : Headers, Attributes : Tables(CurInfos)]

CompareInit ==
    /\ SaverInit(1)
    /\ cmpPrev \in {None} \cup {Some(m) : m \in PrevMsgs}
    /\ cmpCur \in {Some(m) : m \in CurMsgs}
    /\ cmpResult = None
    /\ AttrIdle
    /\ ParseIdle
    /\ RotateIdle

\* pm.Compare(previous)
CallCompare ==
    /\ cmpResult = None
    /\ cmpResult' = Some(Compare(cmpCur[1], cmpPrev))
    /\ UNCHANGED <<cmpPrev, cmpCur>>
    /\ UNCHANGED <<saverVars, attrVars, parseVars, rotVars>>

SpecCompare == CompareInit /\ [][CallCompare]_vars

(***************************************************************************)
(* Properties of the Saver                                                 *)
(***************************************************************************)
IsPrefix(a, b) == Len(a) <= Len(b) /\ SubSeq(b, 1, Len(a)) = a

\* the sinks opened for a cookie, as indices of files
SinksOf(c) == {i \in 1 .. Len(files) : files[i].cookie = c}

\* a close-task for sink i waits in some channel
CloseQueued(i) ==
    \E w \in Workers : \E k \in 1 .. Len(MarshalChans[w]) :
        MarshalChans[w][k].Message = None /\ MarshalChans[w][k].Writer = i

\* the step is a call of swapAndQueue that called queue
QueueCalled == pc = "batch" /\ stats'.TotalCount = stats.TotalCount + 1 /\ last'.queued

\* C1: for every cookie, the ids of the snapshots the marshallers have
\* written so far are, in order, the first of the ids queue sent for that
\* cookie: the write order is the enqueue order.
C1_WriteOrderIsEnqueueOrder ==
    \A c \in Cookies : IsPrefix(written[c], enq[c])

\* C1 witness: with two marshallers, two snapshots of one cookie have been
\* enqueued and both have been written.
C1_Witness ==
    /\ numMarshaller = 2
    /\ \E c \in Cookies : Len(written[c]) >= 2 /\ written[c] = enq[c]

\* C2: every task in the channel of worker w carries a sink of a connection
\* whose cookie is w modulo the number of marshallers, and a snapshot task
\* carries a snapshot of that cookie.
C2_TasksOnPinnedWorker ==
    \A w \in Workers : \A k \in 1 .. Len(MarshalChans[w]) :
        LET task == MarshalChans[w][k] IN
          /\ task.Writer # NilWriter
          /\ files[task.Writer].cookie % numMarshaller = w
          /\ task.Message # None => task.Message[1].cookie = files[task.Writer].cookie

\* C2 witness: with two marshallers, both channels hold a task, one of them
\* the close-task endConn sent.
C2_Witness ==
    /\ numMarshaller = 2
    /\ MarshalChans[0] # <<>>
    /\ MarshalChans[1] # <<>>
    /\ last.op = "endConn"
    /\ \E w \in Workers : MarshalChans[w][Len(MarshalChans[w])].Message = None

\* C3 as stated: a connection never has two sinks that are open (opened
\* and not yet closed by a marshaller).
C3_AtMostOneOpenSink ==
    \A c \in Cookies : Cardinality({i \in SinksOf(c) : files[i].open}) <= 1

\* C3 amended: every open sink of a cookie is the Writer of its Connection
\* Record or has its close-task waiting in a channel; so at most one open
\* sink per connection has no close-task enqueued, and a rotation has
\* enqueued the close-task of the prior sink when Rotate opens the next.
C3_AtMostOneSinkWithoutCloseTask ==
    \A c \in Cookies : \A i \in SinksOf(c) :
        files[i].open =>
            \/ CloseQueued(i)
            \/ Connections[c] # None /\ Connections[c][1].Writer = i

\* C3 witness: queue rotated a file; the prior sink is still open with its
\* close-task queued and the next sink is open.
C3_Witness ==
    \E c \in Cookies : \E i, j \in SinksOf(c) :
        /\ i < j
        /\ files[i].open /\ CloseQueued(i)
        /\ files[j].open /\ files[j].seq = files[i].seq + 1
        /\ Connections[c] # None /\ Connections[c][1].Writer = j

\* C4: no two sinks were opened under the same cookie and sequence number.
C4_NoFileNameReuse ==
    \A i, j \in 1 .. Len(files) :
        i < j => ~(files[i].cookie = files[j].cookie /\ files[i].seq = files[j].seq)

\* the keys of the live map are non-zero and each maps to a record of that cookie
KeysValid ==
    \A k \in Cookies : Connections[k] # None => k # 0 /\ Connections[k][1].ID = k

\* C5: a call of queue with cookie 0 returns the error "Cookie = 0" and
\* leaves the Connection map, the channels and the files as they were; and
\* in every state every key of the live map is non-zero and maps to a
\* record whose cookie is the key.
C5_CookieZeroRejected ==
    /\ []KeysValid
    /\ [][(QueueCalled /\ last'.cookie = 0) =>
             /\ last'.err = "Cookie = 0"
             /\ UNCHANGED <<Connections, MarshalChans, files>>]_vars

\* C5 witness: queue has just rejected cookie 0 while a connection is live
\* and a task is waiting.
C5_Witness ==
    /\ last.op = "swapAndQueue" /\ last.cookie = 0 /\ last.queued
    /\ last.err = "Cookie = 0"
    /\ \E c \in Cookies : Connections[c] # None
    /\ \E w \in Workers : MarshalChans[w] # <<>>

\* C6: when endConn is called for a residual cookie that has a Connection
\* Record, the record is gone afterwards, a close-task for its sink is the
\* last task of the pinned worker's channel, and ExpiredCount went up by one.
C6_ResidualClosed ==
    [][\A c \in Cookies :
         (pc = "residual" /\ c \in todo /\ c \notin todo' /\ Connections[c] # None) =>
            /\ Connections'[c] = None
            /\ stats'.ExpiredCount = stats.ExpiredCount + 1
            /\ LET q == MarshalChans'[c % numMarshaller] IN
                 /\ q # <<>>
                 /\ q[Len(q)] = Task(None, Connections[c][1].Writer)]_vars

\* the step is a call of swapAndQueue
SwapStep == pc = "batch" /\ stats'.TotalCount = stats.TotalCount + 1

\* the snapshot task queue sends for the snapshot the step handles
SnapshotTask(c, writer) == Task(Some([cookie |-> c, id |-> stats'.TotalCount]), writer)

\* the last task of the channel of cookie c after the step is the snapshot
\* of the step, addressed to the Writer of c's record
EnqueuedToCurrentSink(c) ==
    /\ Connections'[c] # None
    /\ Connections'[c][1].Writer # NilWriter
    /\ LET q == MarshalChans'[c % numMarshaller] IN
         q # <<>> /\ q[Len(q)] = SnapshotTask(c, Connections'[c][1].Writer)

\* C7, first sentence: a record appears in the live map only in a call of
\* queue for that cookie, which had no record, with a state below FIN_WAIT1.
C7_CreatedOnlyBeforeFinWait ==
    \A c \in Cookies :
        (Connections[c] = None /\ Connections'[c] # None) =>
            QueueCalled /\ last'.cookie = c /\ last'.state < TCPState_FIN_WAIT1

\* C7 as stated: records are created only below FIN_WAIT1; queue of a
\* record-less cookie at FIN_WAIT1 or later returns success and changes
\* nothing; queue of a cookie with a record at FIN_WAIT1 or later enqueues
\* the snapshot to the record's sink.
C7_ClosingConnections ==
    [][/\ C7_CreatedOnlyBeforeFinWait
       /\ (QueueCalled /\ last'.state >= TCPState_FIN_WAIT1) =>
             IF Connections[last'.cookie] = None
             THEN /\ last'.err = "nil"
                  /\ UNCHANGED <<Connections, MarshalChans, files>>
             ELSE EnqueuedToCurrentSink(last'.cookie)]_vars

\* C7 amended: records are created only below FIN_WAIT1; queue of a
\* record-less cookie at FIN_WAIT1 or later creates no record, opens no file
\* and enqueues no task, and returns success when the cookie is not 0 and
\* the Saver has a marshaller (else the error of that check); queue of a
\* cookie with a record at FIN_WAIT1 or later enqueues the snapshot to the
\* record's sink unless Rotate fails, which is the only error it returns.
C7_ClosingConnectionsAmended ==
    [][/\ C7_CreatedOnlyBeforeFinWait
       /\ (QueueCalled /\ last'.state >= TCPState_FIN_WAIT1) =>
             IF Connections[last'.cookie] = None
             THEN /\ UNCHANGED <<Connections, MarshalChans, files>>
                  /\ last'.err = IF last'.cookie = 0 THEN "Cookie = 0"
                                 ELSE IF numMarshaller = 0 THEN "ErrNoMarshallers"
                                 ELSE "nil"
             ELSE /\ last'.err \in {"nil", "Rotate failed"}
                  /\ last'.err = "nil" => EnqueuedToCurrentSink(last'.cookie)
                  /\ last'.err = "Rotate failed" =>
                        /\ rotateFailures' = rotateFailures + 1
                        /\ Connections'[last'.cookie][1].Writer = NilWriter
                        /\ files' = files]_vars

\* C7 witness: a cookie seen below FIN_WAIT1 has a record, and queue has
\* just returned success for another, record-less, cookie in FIN_WAIT1,
\* which has no record, no file and no task.
C7_Witness ==
    /\ last.op = "swapAndQueue" /\ last.queued /\ last.err = "nil"
    /\ last.state = TCPState_FIN_WAIT1
    /\ last.cookie # 0
    /\ Connections[last.cookie] = None
    /\ SinksOf(last.cookie) = {}
    /\ enq[last.cookie] = <<>>
    /\ \E c \in Cookies \ {last.cookie} :
          /\ Connections[c] # None
          /\ cache[c] # None /\ cache[c][1].state < TCPState_FIN_WAIT1
          /\ Len(enq[c]) = 1

CompareReturned == cmpResult # None /\ cmpPrev # None

\* the INFO attribute of a snapshot is present
HasInfo(m) == InRange(m.Attributes, INET_DIAG_INFO) /\ AttrAt(m.Attributes, INET_DIAG_INFO) # None
InfoBytes(m) == AttrAt(m.Attributes, INET_DIAG_INFO)[1]

\* the offsets at which two INFO values differ: a byte both have with
\* different values, or a byte only one of them has
DiffOffsets(a, b) ==
    {o \in 0 .. Max(Len(a), Len(b)) - 1 :
        o >= Len(a) \/ o >= Len(b) \/ a[o + 1] # b[o + 1]}

\* [last_data_sent_offset, pmtu_offset)
Ignored(o) == lastDataSentOffset <= o /\ o < pmtuOffset

\* The two snapshots are equal except for bytes of INFO in the ignored range.
DifferOnlyInIgnored(p, c) ==
    /\ p.RawIDM = c.RawIDM
    /\ Len(p.Attributes) = Len(c.Attributes)
    /\ HasInfo(p) /\ HasInfo(c)
    /\ \A tp \in 0 .. Len(p.Attributes) - 1 :
          tp # INET_DIAG_INFO => AttrAt(p.Attributes, tp) = AttrAt(c.Attributes, tp)
    /\ DiffOffsets(InfoBytes(p), InfoBytes(c)) # {}
    /\ \A o \in DiffOffsets(InfoBytes(p), InfoBytes(c)) : Ignored(o)

\* Compare reaches the comparison of the INFO values: both headers parse,
\* the TCP states are equal and both snapshots have an INFO attribute.
ReachesInfo(p, c) ==
    /\ RawIDMParseOK(p.RawIDM) /\ RawIDMParseOK(c.RawIDM)
    /\ p.RawIDM.IDiagState = c.RawIDM.IDiagState
    /\ HasInfo(p) /\ HasInfo(c)

\* The INFO values differ in a byte outside the ignored range.
DifferOutsideIgnored(p, c) ==
    \E o \in DiffOffsets(InfoBytes(p), InfoBytes(c)) : ~Ignored(o)

\* C9: for every pair of snapshots that differ only in bytes of INFO in
\* [lastDataSentOffset, pmtuOffset), Compare returns NoMajorChange.
C9_IgnoredRangeIsNoMajorChange ==
    (CompareReturned /\ DifferOnlyInIgnored(cmpPrev[1], cmpCur[1])) =>
        /\ ~cmpResult[1].fault
        /\ cmpResult[1].change = NoMajorChange

\* What holds of the ignored range: the pair is NoMajorChange when both
\* INFO values reach pmtuOffset.
IgnoredRangeFromPmtu ==
    (/\ CompareReturned /\ DifferOnlyInIgnored(cmpPrev[1], cmpCur[1])
     /\ Len(InfoBytes(cmpPrev[1])) >= pmtuOffset
     /\ Len(InfoBytes(cmpCur[1])) >= pmtuOffset) =>
        /\ ~cmpResult[1].fault
        /\ cmpResult[1].change = NoMajorChange

\* C10: for every pair of snapshots whose INFO values differ in a byte
\* outside [lastDataSentOffset, pmtuOffset), Compare returns
\* StateOrCounterChange; the pairs are those for which Compare reaches the
\* INFO values (headers parse, equal TCP state, INFO on both sides).
C10_OutsideRangeIsStateOrCounterChange ==
    (/\ CompareReturned /\ ReachesInfo(cmpPrev[1], cmpCur[1])
     /\ DifferOutsideIgnored(cmpPrev[1], cmpCur[1])) =>
        /\ ~cmpResult[1].fault
        /\ cmpResult[1].change = StateOrCounterChange

\* What holds outside the ignored range: the pair is StateOrCounterChange
\* when both INFO values reach pmtuOffset, and Compare panics otherwise.
OutsideRangeFromPmtu ==
    (/\ CompareReturned /\ ReachesInfo(cmpPrev[1], cmpCur[1])
     /\ DifferOutsideIgnored(cmpPrev[1], cmpCur[1])) =>
        IF Len(InfoBytes(cmpPrev[1])) >= pmtuOffset /\ Len(InfoBytes(cmpCur[1])) >= pmtuOffset
        THEN ~cmpResult[1].fault /\ cmpResult[1].change = StateOrCounterChange
        ELSE cmpResult[1].fault

\* the value of tag tp in a snapshot, None when the tag is absent (nil in
\* the table or beyond its end)
TagValue(m, tp) == IF InRange(m.Attributes, tp) THEN AttrAt(m.Attributes, tp) ELSE None

\* the tags other than INFO that either snapshot's table can hold
OtherTags(p, c) ==
    {tp \in 0 .. Max(Len(p.Attributes), Len(c.Attributes)) - 1 : tp # INET_DIAG_INFO}

\* the tags other than INFO in which the snapshots differ
DifferingTags(p, c) == {tp \in OtherTags(p, c) : TagValue(p, tp) # TagValue(c, tp)}

\* the classification of a differing tag
TagChange(p, c, tp) ==
    LET a == TagValue(p, tp)
        b == TagValue(c, tp)
    IN  IF a = None THEN NewAttribute
        ELSE IF b = None THEN LostAttribute
        ELSE IF Len(a[1]) # Len(b[1]) THEN AttributeLength
        ELSE Other

\* Compare gets as far as the attributes other than INFO: it reaches the
\* INFO values and they are equal outside the ignored range.
ReachesOtherTags(p, c) == ReachesInfo(p, c) /\ ~DifferOutsideIgnored(p, c)

\* C11: when the TCP states and the compared INFO ranges are equal, Compare
\* returns NoMajorChange only if no tag other than INFO differs between the
\* two snapshots, and otherwise the classification of a differing tag:
\* NewAttribute or LostAttribute for a tag on one side only, AttributeLength
\* for different lengths, Other for different bytes.
C11_EveryOtherTagInspected ==
    (CompareReturned /\ ReachesOtherTags(cmpPrev[1], cmpCur[1])) =>
        LET p == cmpPrev[1]
            c == cmpCur[1]
            r == cmpResult[1]
        IN  /\ ~r.fault
            /\ IF DifferingTags(p, c) = {} THEN r.change = NoMajorChange
               ELSE \E tp \in DifferingTags(p, c) : r.change = TagChange(p, c, tp)

\* What holds of the other tags: the statement of C11 for snapshots whose
\* tables have the same length and whose INFO values reach pmtuOffset.
OtherTagsSameTableLength ==
    (/\ CompareReturned /\ ReachesOtherTags(cmpPrev[1], cmpCur[1])
     /\ Len(cmpPrev[1].Attributes) = Len(cmpCur[1].Attributes)
     /\ Len(InfoBytes(cmpPrev[1])) >= pmtuOffset
     /\ Len(InfoBytes(cmpCur[1])) >= pmtuOffset) =>
        LET p == cmpPrev[1]
            c == cmpCur[1]
            r == cmpResult[1]
        IN  /\ ~r.fault
            /\ IF DifferingTags(p, c) = {} THEN r.change = NoMajorChange
               ELSE \E tp \in DifferingTags(p, c) : r.change = TagChange(p, c, tp)

\* A tag that only the current snapshot has, beyond the end of the previous
\* table, is not inspected: Compare returns NoMajorChange.
NewTagBeyondPreviousTable ==
    ~(/\ CompareReturned /\ ReachesOtherTags(cmpPrev[1], cmpCur[1])
      /\ Len(cmpPrev[1].Attributes) < Len(cmpCur[1].Attributes)
      /\ DifferingTags(cmpPrev[1], cmpCur[1]) # {}
      /\ ~cmpResult[1].fault
      /\ cmpResult[1].change = NoMajorChange)

(***************************************************************************)
(* Properties of Close                                                     *)
(***************************************************************************)
\* Close has returned
CloseReturned == pc = "done"

\* every sink Rotate opened has been closed exactly once
EverySinkClosedOnce == \A i \in 1 .. Len(files) : ~files[i].open /\ files[i].closes = 1

\* every task enqueued has been taken and processed by its marshaller
EveryTaskProcessed ==
    /\ \A w \in Workers : MarshalChans[w] = <<>> /\ wstate[w] = "done"
    /\ \A c \in Cookies : written[c] = enq[c]

\* C12: when Close has returned, every sink Rotate opened has been closed
\* exactly once, every enqueued task has been processed, and the live
\* Connection map is empty.
C12_CloseLeavesNothingOpen ==
    CloseReturned =>
        /\ EverySinkClosedOnce
        /\ EveryTaskProcessed
        /\ \A c \in Cookies : Connections[c] = None

\* What holds when Close has returned: the sinks are closed once and the
\* tasks are processed; the records left in the map are those without a
\* sink, whose last call of Rotate failed.
CloseLeavesOnlySinklessRecords ==
    CloseReturned =>
        /\ EverySinkClosedOnce
        /\ EveryTaskProcessed
        /\ \A c \in Cookies : Connections[c] # None =>
              Connections[c][1].Writer = NilWriter /\ rotateFailures > 0

(***************************************************************************)
(* Termination of MessageSaverLoop.  SpecLive adds to the initial states   *)
(* of Spec a Saver with a backlog: a connection whose marshaller has not   *)
(* yet taken the last ChanCap - 1 or ChanCap snapshots queued for it, and  *)
(* no batch left to receive.  The fairness is that of the Go scheduler: a  *)
(* goroutine that can take a step eventually takes it, and Write and Close *)
(* of a sink return.                                                       *)
(***************************************************************************)
\* the cookie of the connection with the backlog
BacklogCookie == MaxCookie

\* the snapshot tasks for ids from .. to of the backlog, for sink 1
BacklogTasks(from, to) ==
    [i \in 1 .. to - from + 1 |->
        Task(Some([cookie |-> BacklogCookie, id |-> from + i - 1]), 1)]

InitBacklog ==
    \E n \in 1 .. MaxMarshallers, k \in {ChanCap - 1, ChanCap} :
        LET conn == newConnection([cookie |-> BacklogCookie], 0)
            pm == [cookie |-> BacklogCookie, state |-> TCPState_ESTABLISHED, v |-> 0]
        IN  /\ numMarshaller = n
            /\ MarshalChans = [w \in 0 .. n - 1 |->
                                 IF w = BacklogCookie % n THEN BacklogTasks(1, k) ELSE <<>>]
            /\ chanClosed = [w \in 0 .. n - 1 |-> FALSE]
            /\ wstate = [w \in 0 .. n - 1 |-> "run"]
            /\ Connections = [c \in Cookies |->
                                 IF c = BacklogCookie THEN Some(Rotate(conn, 1, ageLim)) ELSE None]
            /\ cache = [c \in Cookies |-> IF c = BacklogCookie THEN Some(pm) ELSE None]
            /\ touched = {}
            /\ stats = [TotalCount |-> k, NewCount |-> 1, DiffCount |-> k - 1,
                        ExpiredCount |-> 0]
            /\ NewFileCount = 1
            /\ files = <<NewSink(conn)>>
            /\ pc = "recv"
            /\ todo = {}
            /\ cycles = MaxBatches
            /\ now = 0
            /\ rotateFailures = 0
            /\ enq = [c \in Cookies |->
                         IF c = BacklogCookie THEN [i \in 1 .. k |-> i] ELSE <<>>]
            /\ written = [c \in Cookies |-> <<>>]
            /\ last = NoCall
            /\ CompareIdle
            /\ AttrIdle
            /\ ParseIdle
            /\ RotateIdle

\* the goroutines that can run do run
Fairness ==
    /\ WF_vars(\E c \in Cookies : CloseEndConn(c))
    /\ WF_vars(CloseChans)
    /\ WF_vars(WaitDone)
    /\ \A w \in 0 .. MaxMarshallers - 1 : WF_vars(Marshal(w)) /\ WF_vars(MarshallerDone(w))

SpecLive == (Init \/ InitBacklog) /\ [][Next]_vars /\ Fairness

\* MessageSaverLoop has returned with every channel closed and every
\* marshaller exited
LoopReturned ==
    /\ pc = "done"
    /\ \A w \in Workers : chanClosed[w] /\ wstate[w] = "done" /\ MarshalChans[w] = <<>>

\* C13: once the Saver has seen the batch channel closed, MessageSaverLoop
\* eventually returns with every channel closed and every marshaller
\* exited, also when it has to send to a full channel on the way.
C13_LoopReturnsAfterChannelClosed == (pc = "closing") ~> LoopReturned

\* C13 witness: in Close, endConn has to send the close-task of a
\* connection to a channel that holds ChanCap tasks.
C13_Witness ==
    /\ pc = "closing"
    /\ \E c \in todo :
          /\ HasWriter(c)
          /\ Len(MarshalChans[WorkerOf(c)]) = ChanCap
          /\ ~HasRoom(endConn(c).MarshalChans)

(***************************************************************************)
(* Properties of queue without marshallers                                 *)
(***************************************************************************)
\* C14: in a Saver constructed with no marshallers, a call of queue with a
\* non-zero cookie returns ErrNoMarshallers, and creates no Connection
\* Record, opens no file and enqueues nothing.
C14_NoMarshallersRejected ==
    [][(numMarshaller = 0 /\ QueueCalled /\ last'.cookie # 0) =>
          /\ last'.err = "ErrNoMarshallers"
          /\ UNCHANGED <<Connections, MarshalChans, files, NewFileCount, enq>>
          /\ \A c \in Cookies : Connections'[c] = None
          /\ files' = <<>>]_vars

\* C14 witness: a Saver without marshallers has been handed two snapshots
\* with non-zero cookies, one new and one changed, and queue has returned
\* ErrNoMarshallers.
C14_Witness ==
    /\ numMarshaller = 0
    /\ last.op = "swapAndQueue" /\ last.queued /\ last.hadOld
    /\ last.cookie # 0
    /\ last.err = "ErrNoMarshallers"
    /\ stats.TotalCount = 2 /\ stats.DiffCount = 1

(***************************************************************************)
(* Properties of the bytes written to a file                               *)
(***************************************************************************)
\* the first thing written to the file is the metadata header with the
\* file's own sequence number, followed by "\n"
HeaderFirst(f) ==
    /\ f.lines # <<>>
    /\ f.lines[1] = [kind |-> "meta", n |-> f.seq, nl |-> TRUE]
    /\ \A k \in 2 .. Len(f.lines) : f.lines[k].kind = "snap"

\* C15: every file holds the metadata header line with the file's own
\* sequence number, terminated by a newline and written before any
\* snapshot, and then each snapshot as one JSON record terminated by a
\* newline.
C15_NewlineDelimitedRecords ==
    \A i \in 1 .. Len(files) :
        /\ HeaderFirst(files[i])
        /\ \A k \in 2 .. Len(files[i].lines) : files[i].lines[k].nl

\* What holds of the bytes of a file: the header line comes first and is
\* terminated by a newline, and no snapshot record is followed by one.
HeaderLineThenUnterminatedRecords ==
    \A i \in 1 .. Len(files) :
        /\ HeaderFirst(files[i])
        /\ \A k \in 2 .. Len(files[i].lines) : ~files[i].lines[k].nl

(***************************************************************************)
(* inetdiag.go: ParseRouteAttr and netlinkRouteAttrAndValue                *)
(***************************************************************************)
\* unix.SizeofRtAttr: Len uint16, Type uint16
SizeofRtAttr == 4

\* a uint16 in the byte order of the host (little endian)
Uint16At(b, off) == b[off + 1] + 256 * b[off + 2]

\* the two bytes of a uint16
Uint16Bytes(n) == <<n % 256, n \div 256>>

\* the results of ParseRouteAttr: the attributes and the error, or a
\* runtime panic (slice bounds out of range)
AttrsRet(attrs, err) == [attrs |-> attrs, err |-> err, fault |-> FALSE]
AttrsFault == [attrs |-> <<>>, err |-> "panic", fault |-> TRUE]

\* netlinkRouteAttrAndValue: the descriptor at the head of b, the bytes
\* after it and the aligned length, or EINVAL
netlinkRouteAttrAndValue(b) ==
    LET alen == Uint16At(b, 0) IN
      IF alen < SizeofRtAttr \/ alen > Len(b)
      THEN [err |-> "EINVAL", Len |-> 0, Type |-> 0, vbuf |-> <<>>, alen |-> 0]
      ELSE [err |-> "nil", Len |-> alen, Type |-> Uint16At(b, 2),
            vbuf |-> SliceFrom(b, SizeofRtAttr), alen |-> rtaAlignOf(alen)]

RECURSIVE RouteAttrLoop(_, _)
\* for len(b) >= unix.SizeofRtAttr { ... b = b[alen:] }, with the attributes so far
RouteAttrLoop(b, attrs) ==
    IF Len(b) < SizeofRtAttr THEN AttrsRet(attrs, "nil")
    ELSE LET r == netlinkRouteAttrAndValue(b) IN
      IF r.err # "nil" THEN AttrsRet(<<>>, r.err)
      ELSE LET ra == [Type |-> r.Type, Value |-> SliceTo(r.vbuf, r.Len - SizeofRtAttr)] IN
        IF r.alen > Len(b) THEN AttrsFault
        ELSE RouteAttrLoop(SliceFrom(b, r.alen), Append(attrs, ra))

\* ParseRouteAttr(b []byte) ([]syscall.NetlinkRouteAttr, error)
ParseRouteAttr(b) == RouteAttrLoop(b, <<>>)

(***************************************************************************)
(* ParseRouteAttr on its own: the byte sequences are up to MaxAttrs        *)
(* attributes, each a descriptor with a claimed length and a type followed *)
(* by some bytes (as many as claimed, fewer, or more), and some trailing   *)
(* bytes.                                                                  *)
(***************************************************************************)
\* attributes in a byte sequence
MaxAttrs == 2
\* bytes after a descriptor
MaxValueLen == 5

\* a byte that is no length a descriptor of the model claims
Filler == 9
Bytes(n) == [i \in 1 .. n |-> Filler]

\* claimed lengths: below the descriptor size, with a value of 0, 1, 2 and
\* 4 bytes, and longer than any byte sequence of the model
ClaimedLens == {SizeofRtAttr - 1, SizeofRtAttr, SizeofRtAttr + 1, SizeofRtAttr + 2,
                2 * SizeofRtAttr, 50 * SizeofRtAttr}
AttrTypes == {INET_DIAG_INFO - 1, INET_DIAG_INFO}

Chunks == {Uint16Bytes(l) \o Uint16Bytes(t) \o Bytes(k) :
              l \in ClaimedLens, t \in AttrTypes, k \in 0 .. MaxValueLen}

RECURSIVE ChunkSeqs(_)
\* the concatenations of up to n chunks
ChunkSeqs(n) ==
    IF n = 0 THEN {<<>>}
    ELSE LET shorter == ChunkSeqs(n - 1) IN
           shorter \cup {s \o c : s \in shorter, c \in Chunks}

Tails == {s \o Bytes(k) : s \in ChunkSeqs(MaxAttrs), k \in 0 .. SizeofRtAttr - 1}

AttrInit ==
    /\ SaverInit(1)
    /\ CompareIdle
    /\ ParseIdle
    /\ RotateIdle
    /\ attrIn \in Tails
    /\ attrOut = None

\* ParseRouteAttr(attrIn)
CallParseRouteAttr ==
    /\ attrOut = None
    /\ attrOut' = Some(ParseRouteAttr(attrIn))
    /\ UNCHANGED attrIn
    /\ UNCHANGED <<saverVars, cmpVars, parseVars, rotVars>>

SpecAttr == AttrInit /\ [][CallParseRouteAttr]_vars

(***************************************************************************)
(* Properties of ParseRouteAttr                                            *)
(***************************************************************************)
RECURSIVE WireAttrs(_)
\* The walk of the attribute bytes as stated: a descriptor whose claimed
\* length is below the descriptor size or above the remaining bytes is
\* malformed (ok is FALSE); otherwise its value is the claimed length minus
\* the descriptor size, and the walk goes on after the length rounded up to
\* a multiple of 4, or at the end of the bytes for a last attribute that is
\* not padded.
WireAttrs(b) ==
    IF Len(b) < SizeofRtAttr THEN [ok |-> TRUE, attrs |-> <<>>]
    ELSE LET claimed == Uint16At(b, 0) IN
      IF claimed < SizeofRtAttr \/ claimed > Len(b) THEN [ok |-> FALSE, attrs |-> <<>>]
      ELSE LET value == SubSeq(b, SizeofRtAttr + 1, claimed)
               next == IF rtaAlignOf(claimed) > Len(b) THEN Len(b) ELSE rtaAlignOf(claimed)
               rest == WireAttrs(SubSeq(b, next + 1, Len(b)))
           IN  IF ~rest.ok THEN rest
               ELSE [ok |-> TRUE,
                     attrs |-> <<[Type |-> Uint16At(b, 2), Value |-> value]>> \o rest.attrs]

Rejected(b) == ~WireAttrs(b).ok

\* C17: for every byte sequence ParseRouteAttr returns, without a panic,
\* EINVAL exactly when a descriptor on the walk claims a length below the
\* descriptor size or above the remaining bytes, and otherwise the
\* attributes in wire order with values of the claimed length minus 4,
\* also when the last attribute is not padded to a multiple of 4.
C17_RouteAttrWalk ==
    attrOut # None =>
        /\ ~attrOut[1].fault
        /\ IF Rejected(attrIn) THEN attrOut[1].err = "EINVAL"
           ELSE attrOut[1].err = "nil" /\ attrOut[1].attrs = WireAttrs(attrIn).attrs

RECURSIVE LastAttrUnpadded(_)
\* the walk as stated ends with an attribute that fits the remaining bytes
\* while its length rounded up to a multiple of 4 does not
LastAttrUnpadded(b) ==
    IF Len(b) < SizeofRtAttr THEN FALSE
    ELSE LET claimed == Uint16At(b, 0) IN
      IF claimed < SizeofRtAttr \/ claimed > Len(b) THEN FALSE
      ELSE IF rtaAlignOf(claimed) > Len(b) THEN TRUE
      ELSE LastAttrUnpadded(SubSeq(b, rtaAlignOf(claimed) + 1, Len(b)))

\* What holds of the walk: the statement of C17 for the byte sequences
\* whose last attribute is padded, and a panic for the others.
RouteAttrWalkPadded ==
    attrOut # None =>
        IF ~Rejected(attrIn) /\ LastAttrUnpadded(attrIn)
        THEN attrOut[1].fault
        ELSE /\ ~attrOut[1].fault
             /\ IF Rejected(attrIn) THEN attrOut[1].err = "EINVAL"
                ELSE attrOut[1].err = "nil" /\ attrOut[1].attrs = WireAttrs(attrIn).attrs

(***************************************************************************)
(* inetdiag.go: Parse                                                      *)
(***************************************************************************)
\* SOCK_DIAG_BY_FAMILY, the type Parse accepts (msg.Header.Type != 20)
SOCK_DIAG_BY_FAMILY == 20
\* the number of INET_DIAG_* attribute types
INET_DIAG_MAX == 19

\* An address is the 16 bytes of IDiagSrc or IDiagDst.
Addr(b0, b1, b2, b3, mid, b15) ==
    [i \in 1 .. 16 |-> CASE i = 1 -> b0 [] i = 2 -> b1 [] i = 3 -> b2 [] i = 4 -> b3
                         [] i = 16 -> b15 [] OTHER -> mid]

\* isIpv6: some byte from offset 4 on is not 0
isIpv6(original) == \E i \in 5 .. 16 : original[i] # 0

\* ip: the 16 bytes when isIpv6, else the 4 bytes of net.IPv4(...).To4()
ip(bytes) == IF isIpv6(bytes) THEN bytes ELSE SubSeq(bytes, 1, 4)

\* net.IP.To4 of a 16-byte address: the last 4 bytes of an IPv4-mapped
\* address, else nil
To4(a) ==
    IF Len(a) = 4 THEN Some(a)
    ELSE IF (\A i \in 1 .. 10 : a[i] = 0) /\ a[11] = 255 /\ a[12] = 255
         THEN Some(SubSeq(a, 13, 16))
         ELSE None

\* net.IP: IsLoopback, IsLinkLocalUnicast, IsMulticast, IsUnspecified
IsLoopback(a) ==
    IF To4(a) # None THEN To4(a)[1][1] = 127
    ELSE (\A i \in 1 .. 15 : a[i] = 0) /\ a[16] = 1
IsLinkLocalUnicast(a) ==
    IF To4(a) # None THEN To4(a)[1][1] = 169 /\ To4(a)[1][2] = 254
    ELSE a[1] = 254 /\ (a[2] \div 64) = 2
IsMulticast(a) ==
    IF To4(a) # None THEN (To4(a)[1][1] \div 16) = 14
    ELSE a[1] = 255
IsUnspecified(a) ==
    IF Len(a) = 4 THEN \A i \in 1 .. 4 : a[i] = 0
    ELSE \/ \A i \in 1 .. 16 : a[i] = 0
         \/ To4(a) # None /\ \A i \in 1 .. 4 : To4(a)[1][i] = 0

\* isLocal(addr net.IP)
isLocal(addr) ==
    IsLoopback(addr) \/ IsLinkLocalUnicast(addr) \/ IsMulticast(addr) \/ IsUnspecified(addr)

\* Fault injection for C16: the payload is split without looking at its length.
splitInetDiagMsgUnchecked(data) == [raw |-> Some(data.hdr), attrBytes |-> data.tail]

\* splitInetDiagMsg: the payload is the header, of which hdr.Len bytes are
\* there, and the attribute bytes after it; nil when the payload is shorter
\* than the aligned header.
splitInetDiagMsg(data) ==
    IF data.hdr.Len + Len(data.tail) < rtaAlignOf(SizeofInetDiagMsg)
    THEN [raw |-> None, attrBytes |-> <<>>]
    ELSE [raw |-> Some(data.hdr), attrBytes |-> data.tail]

\* the results of Parse: the snapshot (None for nil) and the error, or a
\* runtime panic
ParseRet(msg, err) == [msg |-> msg, err |-> err, fault |-> FALSE]
ParseFault == [msg |-> None, err |-> "panic", fault |-> TRUE]

\* Fault injection for C27: the table is sized by the largest tag, unclamped.
MaxAttrTypeUnclamped(attrs) ==
    LET types == {attrs[i].Type : i \in 1 .. Len(attrs)}
    IN  IF types = {} THEN 0 ELSE CHOOSE t \in types : \A u \in types : u <= t

\* Parse: maxAttrType, at most 2 * INET_DIAG_MAX
MaxAttrType(attrs) ==
    LET types == {attrs[i].Type : i \in 1 .. Len(attrs)}
        m == IF types = {} THEN 0 ELSE CHOOSE t \in types : \A u \in types : u <= t
    IN  IF m > 2 * INET_DIAG_MAX THEN 2 * INET_DIAG_MAX ELSE m

\* Parse: parsedMsg.Attributes[t] = a.Value for every attribute in order, so
\* the last attribute of a type stays
AttributesOf(attrs) ==
    [k \in 1 .. MaxAttrType(attrs) + 1 |->
        LET at == {i \in 1 .. Len(attrs) : attrs[i].Type = k - 1} IN
          IF at = {} THEN None
          ELSE Some(attrs[CHOOSE i \in at : \A j \in at : j <= i].Value)]

\* Fault injection for C18: only the source address is looked at.
EndpointLocalSrcOnly(idm) == isLocal(ip(idm.Src))

\* Parse: isLocal(idm.ID.SrcIP()) || isLocal(idm.ID.DstIP())
EndpointLocal(idm) == isLocal(ip(idm.Src)) \/ isLocal(ip(idm.Dst))

\* Parse(msg *syscall.NetlinkMessage, skipLocal bool) (*ParsedMessage, error)
Parse(msg, skip) ==
    IF msg.Type # SOCK_DIAG_BY_FAMILY THEN ParseRet(None, "ErrNotType20")
    ELSE LET split == splitInetDiagMsg(msg.Data) IN
      IF split.raw = None THEN ParseRet(None, "ErrParseFailed")
      ELSE IF skip /\ ~RawIDMParseOK(split.raw[1]) THEN ParseRet(None, "ErrParseFailed")
      ELSE IF skip /\ EndpointLocal(split.raw[1]) THEN ParseRet(None, "nil")
      ELSE LET r == ParseRouteAttr(split.attrBytes) IN
        IF r.fault THEN ParseFault
        ELSE IF r.err # "nil" THEN ParseRet(None, r.err)
        ELSE ParseRet(Some([RawIDM |-> split.raw[1], Attributes |-> AttributesOf(r.attrs)]),
                      "nil")

(***************************************************************************)
(* Parse on its own: the frames are of type 20 or not, with a payload that *)
(* is empty, one byte short of the header, or a header with endpoints of   *)
(* every kind of address followed by attribute bytes that are well formed  *)
(* or not.                                                                 *)
(***************************************************************************)
\* 10.0.0.1 and 2001:db8::1
GlobalAddrs == {Addr(10, 0, 0, 1, 0, 0), Addr(32, 1, 13, 184, 0, 1)}

\* 127.0.0.1, 169.254.1.1, 224.0.0.1, the all-zero address, ::1, fe80::1, ff02::1
LocalAddrs ==
    {Addr(127, 0, 0, 1, 0, 0), Addr(169, 254, 1, 1, 0, 0), Addr(224, 0, 0, 1, 0, 0),
     Addr(0, 0, 0, 0, 0, 0), Addr(0, 0, 0, 0, 0, 1), Addr(254, 128, 0, 0, 0, 1),
     Addr(255, 2, 0, 0, 0, 1)}

Addrs == GlobalAddrs \cup LocalAddrs

\* the bytes of one attribute: descriptor, value, and padding to a multiple of 4
AttrBytes(tp, value) ==
    LET alen == SizeofRtAttr + Len(value) IN
      Uint16Bytes(alen) \o Uint16Bytes(tp) \o value \o [i \in 1 .. rtaAlignOf(alen) - alen |-> 0]

\* the attribute bytes of a snapshot whose only attribute is INFO variant v
InfoTail(v) == AttrBytes(INET_DIAG_INFO, InfoOf(v))

\* attribute bytes: none, INFO, MEMINFO then INFO, a descriptor that claims
\* less than its own size, a last attribute without padding, a tag above
\* 2 * INET_DIAG_MAX before INFO, a tag of 2 * INET_DIAG_MAX, and MEMINFO
\* twice with different values
ParseTails ==
    {<<>>, InfoTail(0), AttrBytes(INET_DIAG_INFO - 1, Bytes(2)) \o InfoTail(0),
     Uint16Bytes(SizeofRtAttr - 1) \o Uint16Bytes(INET_DIAG_INFO),
     Uint16Bytes(SizeofRtAttr + 1) \o Uint16Bytes(INET_DIAG_INFO - 1) \o Bytes(1),
     AttrBytes(2 * INET_DIAG_MAX + 1, Bytes(1)) \o InfoTail(0),
     AttrBytes(2 * INET_DIAG_MAX, Bytes(1)),
     AttrBytes(INET_DIAG_INFO - 1, Bytes(2)) \o AttrBytes(INET_DIAG_INFO - 1, <<7>>)}

Hdr(len, st, cookie, src, dst) ==
    [Len |-> len, IDiagState |-> st, Cookie |-> cookie, Src |-> src, Dst |-> dst]

\* payloads: a whole header with attribute bytes, or fewer bytes than a header
Payloads ==
    {[hdr |-> Hdr(SizeofInetDiagMsg, st, 1, src, dst), tail |-> tl] :
        st \in TCPStates, src \in Addrs, dst \in Addrs, tl \in ParseTails}
      \cup {[hdr |-> Hdr(len, st, 1, src, dst), tail |-> <<>>] :
              len \in {0, SizeofInetDiagMsg - 1}, st \in TCPStates, src \in Addrs, dst \in Addrs}

Frames == [Type : {SOCK_DIAG_BY_FAMILY - 1, SOCK_DIAG_BY_FAMILY}, Data : Payloads]

PayloadLen(f) == f.Data.hdr.Len + Len(f.Data.tail)

ParseInit ==
    /\ SaverInit(1)
    /\ CompareIdle
    /\ AttrIdle
    /\ RotateIdle
    /\ frame \in {Some(f) : f \in Frames}
    /\ skipLocal \in BOOLEAN
    /\ parsed = None
    /\ delivered = {}

\* Parse(frame, skipLocal)
CallParse ==
    /\ parsed = None
    /\ parsed' = Some(Parse(frame[1], skipLocal))
    /\ delivered' = delivered \cup {frame[1]}
    /\ UNCHANGED <<frame, skipLocal>>
    /\ UNCHANGED <<saverVars, cmpVars, attrVars, rotVars>>

SpecParse == ParseInit /\ [][CallParse]_vars

(***************************************************************************)
(* Properties of Parse                                                     *)
(***************************************************************************)
\* C16: Parse returns ErrNotType20 and no snapshot for every frame whose
\* type is not 20, whatever its payload, and ErrParseFailed and no snapshot
\* for every frame of type 20 whose payload is shorter than the aligned
\* size of the diagnostic header.
C16_WrongTypeAndShortHeader ==
    parsed # None =>
        LET f == frame[1]
            r == parsed[1]
        IN  /\ f.Type # SOCK_DIAG_BY_FAMILY =>
                  ~r.fault /\ r.err = "ErrNotType20" /\ r.msg = None
            /\ (f.Type = SOCK_DIAG_BY_FAMILY /\ PayloadLen(f) < rtaAlignOf(SizeofInetDiagMsg)) =>
                  ~r.fault /\ r.err = "ErrParseFailed" /\ r.msg = None

\* C16 witness: a frame of type 20 that is one byte short of the header was
\* given to Parse without skipLocal, and ErrParseFailed came back.
C16_Witness ==
    /\ parsed # None /\ frame # None
    /\ frame[1].Type = SOCK_DIAG_BY_FAMILY
    /\ PayloadLen(frame[1]) = SizeofInetDiagMsg - 1
    /\ ~skipLocal
    /\ parsed[1].err = "ErrParseFailed" /\ parsed[1].msg = None

(***************************************************************************)
(* Frames through Parse with skipLocal and then MessageSaverLoop: every    *)
(* entry of a batch is what Parse returned for a frame, a snapshot or nil. *)
(***************************************************************************)
\* the snapshot of the saver model that a ParsedMessage stands for
SnapshotOf(m) ==
    [cookie |-> m.RawIDM.Cookie, state |-> m.RawIDM.IDiagState,
     v |-> CHOOSE v \in Variants : m.Attributes = <<None, None, Some(InfoOf(v))>>]

\* a frame of type 20 with a whole header of an established connection
Wire(cookie, src, dst, tl) ==
    [Type |-> SOCK_DIAG_BY_FAMILY,
     Data |-> [hdr |-> Hdr(SizeofInetDiagMsg, TCPState_ESTABLISHED, cookie, src, dst),
               tail |-> tl]]

\* the frames of the collector: cookie 1 from 127.0.0.1 with its attribute
\* bytes cut, cookie 1 to ff02::1, cookie 2 between 10.0.0.1 and 10.0.0.1,
\* and cookie 2 from 127.0.0.1
WireFrames ==
    {Wire(1, Addr(127, 0, 0, 1, 0, 0), Addr(10, 0, 0, 1, 0, 0),
          Uint16Bytes(SizeofRtAttr + 1) \o Uint16Bytes(INET_DIAG_INFO) \o Bytes(1)),
     Wire(1, Addr(10, 0, 0, 1, 0, 0), Addr(255, 2, 0, 0, 0, 1), InfoTail(0)),
     Wire(2, Addr(10, 0, 0, 1, 0, 0), Addr(10, 0, 0, 1, 0, 0), InfoTail(0)),
     Wire(2, Addr(127, 0, 0, 1, 0, 0), Addr(10, 0, 0, 1, 0, 0), InfoTail(0))}

\* msgs[i] is the result of Parse(f, true): nil is skipped, a snapshot goes
\* to swapAndQueue.  A panic in Parse ends the collector before the batch.
Deliver(f, t, rotateOK) ==
    /\ pc = "batch"
    /\ LET r == Parse(f, TRUE) IN
         /\ ~r.fault
         /\ frame' = Some(f)
         /\ skipLocal' = TRUE
         /\ parsed' = Some(r)
         /\ delivered' = delivered \cup {f}
         /\ IF r.msg = None THEN UNCHANGED saverVars
            ELSE /\ stats.TotalCount < MaxMsgs
                 /\ swapAndQueue(SnapshotOf(r.msg[1]), t, rotateOK)
    /\ UNCHANGED <<cmpVars, attrVars, rotVars>>

NextWire ==
    \/ RecvBatch
    \/ \E f \in WireFrames, t \in 0 .. MaxTime, rotateOK \in BOOLEAN : Deliver(f, t, rotateOK)
    \/ EndCycle
    \/ \E c \in Cookies : EndConnResidual(c)
    \/ ChannelClosed
    \/ \E c \in Cookies : CloseEndConn(c)
    \/ CloseChans
    \/ WaitDone
    \/ \E w \in 0 .. MaxMarshallers - 1 : Marshal(w)
    \/ \E w \in 0 .. MaxMarshallers - 1 : MarshallerDone(w)

\* NewSaver with one marshaller
InitWire ==
    /\ SaverInit(1)
    /\ CompareIdle
    /\ AttrIdle
    /\ ParseIdle
    /\ RotateIdle

SpecWire == InitWire /\ [][NextWire]_vars

\* Parse with skipLocal gets as far as the addresses of f, and one of them is local
LocalFound(f) ==
    /\ f.Type = SOCK_DIAG_BY_FAMILY
    /\ PayloadLen(f) >= rtaAlignOf(SizeofInetDiagMsg)
    /\ isLocal(ip(f.Data.hdr.Src)) \/ isLocal(ip(f.Data.hdr.Dst))

\* nothing in the Saver carries the cookie
NoTraceOf(c) ==
    /\ cache[c] = None /\ c \notin touched /\ c \notin todo
    /\ Connections[c] = None
    /\ enq[c] = <<>> /\ written[c] = <<>>
    /\ \A i \in 1 .. Len(files) : files[i].cookie # c
    /\ last.cookie # c

\* C18: a frame for which Parse with skipLocal finds a local source or
\* destination address yields no snapshot and no error, and a cookie whose
\* frames were all such frames has no cache entry, no Connection Record, no
\* task, no file, and is in no residual set.
C18_LocalFramesLeaveNoTrace ==
    /\ (parsed # None /\ skipLocal /\ LocalFound(frame[1])) => parsed[1] = ParseRet(None, "nil")
    /\ \A c \in 1 .. MaxCookie :
          LET fs == {f \in delivered : f.Data.hdr.Cookie = c} IN
            (skipLocal /\ fs # {} /\ \A f \in fs : LocalFound(f)) => NoTraceOf(c)

\* C18 witness: cookie 1 was delivered from 127.0.0.1 only, the last time in
\* the cycle that has just ended, and the residual set of that cycle holds
\* another cookie and not cookie 1.
C18_Witness ==
    /\ pc = "residual" /\ todo = {2}
    /\ frame # None /\ frame[1].Data.hdr.Cookie = 1
    /\ frame[1].Data.hdr.Src = Addr(127, 0, 0, 1, 0, 0)
    /\ parsed = Some(ParseRet(None, "nil"))
    /\ \A f \in delivered : f.Data.hdr.Cookie = 1 => LocalFound(f)
    /\ NoTraceOf(1)

(***************************************************************************)
(* Properties of a failing Rotate                                          *)
(***************************************************************************)
\* this step is a call of swapAndQueue that handed a snapshot of cookie c to queue
QueueCalledFor(c) ==
    /\ stats'.TotalCount = stats.TotalCount + 1
    /\ last'.op = "swapAndQueue" /\ last'.cookie = c /\ last'.queued

\* this step called Rotate: it failed, or it made a file
RotateCalled == rotateFailures' = rotateFailures + 1 \/ Len(files') = Len(files) + 1

\* the only task this step may have added to a channel is a close task
NoSnapshotSent ==
    \A w \in Workers :
        \/ MarshalChans'[w] = MarshalChans[w]
        \/ /\ Len(MarshalChans'[w]) = Len(MarshalChans[w]) + 1
           /\ SubSeq(MarshalChans'[w], 1, Len(MarshalChans[w])) = MarshalChans[w]
           /\ MarshalChans'[w][Len(MarshalChans'[w])].Message = None

\* C19: when Rotate fails, queue returns the error, the snapshot is not
\* enqueued, the Connection Record keeps a nil sink with its sequence, its
\* expiration and the new-file counter unchanged, and the next snapshot
\* queued for the same cookie calls Rotate again.
C19_RotateFailureRetried ==
    [][\A c \in Cookies :
          /\ (QueueCalledFor(c) /\ rotateFailures' = rotateFailures + 1) =>
                /\ last'.err = "Rotate failed"
                /\ enq' = enq /\ NoSnapshotSent
                /\ files' = files /\ NewFileCount' = NewFileCount
                /\ Connections'[c] # None
                /\ Connections'[c][1].Writer = NilWriter
                /\ Connections'[c][1].Sequence =
                      IF Connections[c] = None THEN 0 ELSE Connections[c][1].Sequence
                /\ Connections'[c][1].Expiration =
                      IF Connections[c] = None THEN now' ELSE Connections[c][1].Expiration
          /\ (QueueCalledFor(c) /\ Connections[c] # None /\ numMarshaller >= 1
                /\ Connections[c][1].Writer = NilWriter) => RotateCalled]_vars

\* C19 witness: the first snapshot of a cookie was dropped because Rotate
\* failed, and the second one made Rotate open the file of sequence 0.
C19_Witness ==
    /\ rotateFailures = 1 /\ stats.TotalCount = 2
    /\ \E c \in Cookies :
          /\ enq[c] = <<2>>
          /\ Connections[c] # None
          /\ Connections[c][1].Writer # NilWriter
          /\ Connections[c][1].Sequence = 1
          /\ Len(files) = 1 /\ files[1].cookie = c /\ files[1].seq = 0
    /\ NewFileCount = 1 /\ last.err = "nil"

(***************************************************************************)
(* A Write that returns an error.  Spec takes every Write of a marshaller  *)
(* and every json.Marshal to succeed; SpecWrite adds the ones that fail.   *)
(***************************************************************************)
\* calls of Write on one sink that return an error
MaxWriteFailures == 1

\* runMarshaller: task.Writer.Write(b) returns an error, which is discarded;
\* nothing of b is taken to have reached the file
MarshalWriteError(w) ==
    /\ w \in Workers
    /\ wstate[w] = "run"
    /\ MarshalChans[w] # <<>>
    /\ LET task == Receive(MarshalChans[w]).task IN
         /\ task.Message # None
         /\ task.Writer # NilWriter
         /\ files[task.Writer].werr < MaxWriteFailures
         /\ MarshalChans' = [MarshalChans EXCEPT ![w] = Receive(MarshalChans[w]).rest]
         /\ files' = [files EXCEPT ![task.Writer].werr = @ + 1]
    /\ UNCHANGED <<numMarshaller, chanClosed, wstate, Connections, cache, touched, stats,
                   NewFileCount, pc, todo, cycles, now, rotateFailures, enq, written, last>>
    /\ UNCHANGED callVars

\* snapshots for one sink that json.Marshal returns an error for
MaxMarshalFailures == 1

\* runMarshaller: b, _ := json.Marshal(task.Message) returns an error, which
\* is discarded, and no bytes; task.Writer.Write(b) then writes nothing
MarshalJSONError(w) ==
    /\ w \in Workers
    /\ wstate[w] = "run"
    /\ MarshalChans[w] # <<>>
    /\ LET task == Receive(MarshalChans[w]).task IN
         /\ task.Message # None
         /\ task.Writer # NilWriter
         /\ files[task.Writer].jerr < MaxMarshalFailures
         /\ MarshalChans' = [MarshalChans EXCEPT ![w] = Receive(MarshalChans[w]).rest]
         /\ files' = [files EXCEPT ![task.Writer].jerr = @ + 1]
    /\ UNCHANGED <<numMarshaller, chanClosed, wstate, Connections, cache, touched, stats,
                   NewFileCount, pc, todo, cycles, now, rotateFailures, enq, written, last>>
    /\ UNCHANGED callVars

NextWrite ==
    \/ Next
    \/ \E w \in 0 .. MaxMarshallers - 1 : MarshalWriteError(w)
    \/ \E w \in 0 .. MaxMarshallers - 1 : MarshalJSONError(w)

SpecWrite == Init /\ [][NextWrite]_vars

\* this step is a Write on sink i that returned an error
WriteFailedOn(i) == Len(files') = Len(files) /\ files'[i].werr = files[i].werr + 1

\* C20: when a worker's write of a snapshot to a sink fails, the failure is
\* counted, the sink is closed and the Connection Record's sink is cleared,
\* so that the next snapshot queued for that cookie opens a new file by
\* rotation.
C20_WriteFailureClearsSink ==
    [][/\ \A i \in 1 .. Len(files) :
             WriteFailedOn(i) =>
                /\ stats' # stats \/ NewFileCount' # NewFileCount
                /\ ~files'[i].open
                /\ \A c \in Cookies :
                      Connections'[c] # None => Connections'[c][1].Writer # i
       /\ \A c \in Cookies :
             (/\ QueueCalledFor(c) /\ last'.err = "nil"
              /\ Connections[c] # None
              /\ Connections[c][1].Writer # NilWriter
              /\ files[Connections[c][1].Writer].werr > 0) =>
                /\ Len(files') = Len(files) + 1
                /\ Connections'[c][1].Writer = Len(files')]_vars

\* this step is a worker taking a snapshot for sink i that json.Marshal fails on
MarshalFailedOn(i) == Len(files') = Len(files) /\ files'[i].jerr = files[i].jerr + 1

\* C21: when serialization of a task's snapshot fails in a worker, the error
\* is counted and the task is dropped: nothing is written to the sink for
\* that task, and the sink stays open and usable for the subsequent tasks of
\* that connection.
C21_SerializationFailureCounted ==
    [][\A i \in 1 .. Len(files) :
          MarshalFailedOn(i) =>
             /\ stats' # stats \/ NewFileCount' # NewFileCount
             /\ files'[i].lines = files[i].lines
             /\ files'[i].open = files[i].open
             /\ Connections' = Connections]_vars

\* the part of C21 that the code keeps: the task is dropped and the sink is
\* left as it was
SerializationFailureDropsTask ==
    [][\A i \in 1 .. Len(files) :
          MarshalFailedOn(i) =>
             /\ files'[i].lines = files[i].lines
             /\ files'[i].open = files[i].open
             /\ Connections' = Connections]_vars

(***************************************************************************)
(* Properties of the cache cycle                                           *)
(***************************************************************************)
\* this step is residual := svr.cache.EndCycle()
EndCycleCalled == pc = "batch" /\ pc' \in {"recv", "residual"}

\* C22: the residual returned by EndCycle is exactly the set of cookies that
\* had a retained snapshot at the start of the cycle and were not passed to
\* Update during it; each such cookie is returned exactly once and removed
\* from the cache, and the cache holds at most one retained snapshot per
\* cookie.  A retained snapshot changes only by an Update, which marks the
\* cookie for the cycle, or by EndCycle; so an unmarked cookie holds what it
\* held when the cycle started.
C22_ResidualIsUnupdatedCookies ==
    [][/\ \A c \in Cookies :
             /\ (cache'[c] # cache[c]) => (c \in touched' \/ EndCycleCalled)
             /\ (stats'.TotalCount = stats.TotalCount + 1 /\ last'.cookie = c) =>
                   (c \in touched' /\ cache'[c] # None /\ cache'[c][1].cookie = c)
             /\ (c \in touched /\ ~EndCycleCalled) => c \in touched'
       /\ EndCycleCalled =>
             /\ todo' = {c \in Cookies : cache[c] # None /\ c \notin touched}
             /\ \A c \in Cookies : cache'[c] = IF c \in todo' THEN None ELSE cache[c]
             /\ touched' = {}
       /\ (pc = "residual" /\ pc' # "panic" /\ todo' # todo) =>
             /\ \E c \in todo : todo' = todo \ {c}
             /\ stats'.ExpiredCount = stats.ExpiredCount + 1
             /\ cache' = cache]_vars

\* C22 witness: a cycle has ended in which cookie 1, retained before, was
\* not updated and cookie 2 was; EndCycle returned cookie 1 alone and
\* removed it.
C22_Witness ==
    /\ pc = "residual" /\ last.op = "EndCycle"
    /\ todo = {1}
    /\ cache[1] = None /\ cache[2] # None
    /\ touched = {}

(***************************************************************************)
(* Properties of who operates on a sink                                    *)
(***************************************************************************)
\* the worker that takes the next task of channel w does so in this step,
\* and the task holds sink i
WorkerStepOn(w, i) ==
    /\ MarshalChans[w] # <<>>
    /\ MarshalChans[w][1].Writer = i
    /\ MarshalChans'[w] = Tail(MarshalChans[w])

\* C23: no sink is operated on by two tasks of execution at the same time.
\* Every task that holds a sink is in the channel of the one worker its
\* cookie is pinned to; a sink changes only in a step of that worker on a
\* task holding it; and the Saver writes to a sink only when it creates it
\* with its metadata header, when no task holds that sink yet.
C23_SinkHasOneHandler ==
    /\ [](\A w \in Workers : \A k \in 1 .. Len(MarshalChans[w]) :
             LET i == MarshalChans[w][k].Writer IN
               i # NilWriter =>
                  /\ i \in 1 .. Len(files)
                  /\ w = files[i].cookie % numMarshaller)
    /\ [][/\ \A i \in 1 .. Len(files) :
                files'[i] # files[i] =>
                   /\ WorkerStepOn(files[i].cookie % numMarshaller, i)
                   /\ \A j \in 1 .. Len(files) : j # i => files'[j] = files[j]
                   /\ Len(files') = Len(files)
          /\ Len(files') # Len(files) =>
                /\ Len(files') = Len(files) + 1
                /\ Len(files'[Len(files')].lines) = 1
                /\ \A w \in Workers : \A k \in 1 .. Len(MarshalChans[w]) :
                      MarshalChans[w][k].Writer # Len(files')]_vars

\* C23 witness: with two marshallers, the sinks of two cookies are held by
\* tasks of different workers; one worker has written a snapshot to its
\* sink while the other sink's task is still queued.
C23_Witness ==
    /\ numMarshaller = 2 /\ Len(files) = 2
    /\ files[1].cookie % 2 # files[2].cookie % 2
    /\ Len(files[1].lines) = 2
    /\ Len(files[2].lines) = 1
    /\ MarshalChans[files[2].cookie % 2] # <<>>
    /\ MarshalChans[files[2].cookie % 2][1].Writer = 2

(***************************************************************************)
(* Properties of the order of Compare's rules                              *)
(***************************************************************************)
\* both headers parse
HeadersParse(p, c) == RawIDMParseOK(p.RawIDM) /\ RawIDMParseOK(c.RawIDM)

\* C24: Compare applies its rules in order: a nil previous gives
\* PreviousWasNil; otherwise, if both headers parse and the TCP states
\* differ, the result is IDiagStateChange whatever the attributes are;
\* otherwise, if either side lacks an INFO attribute, the result is
\* NoTCPInfo whatever the other attributes are.
C24_RulesInOrder ==
    cmpResult # None =>
        LET r == cmpResult[1] IN
          IF cmpPrev = None THEN ~r.fault /\ r.change = PreviousWasNil /\ r.err = "nil"
          ELSE LET p == cmpPrev[1]
                   c == cmpCur[1]
               IN  HeadersParse(p, c) =>
                      IF p.RawIDM.IDiagState # c.RawIDM.IDiagState
                      THEN ~r.fault /\ r.change = IDiagStateChange /\ r.err = "nil"
                      ELSE (~HasInfo(p) \/ ~HasInfo(c)) =>
                              ~r.fault /\ r.change = NoTCPInfo /\ r.err = "nil"

\* What holds of the order of the rules: the first two rules as claimed,
\* and NoTCPInfo for a missing INFO attribute when both tables reach the
\* INFO tag; with a table that ends before it Compare panics.
RulesInOrderWithinTables ==
    cmpResult # None =>
        LET r == cmpResult[1] IN
          IF cmpPrev = None THEN ~r.fault /\ r.change = PreviousWasNil /\ r.err = "nil"
          ELSE LET p == cmpPrev[1]
                   c == cmpCur[1]
               IN  HeadersParse(p, c) =>
                      IF p.RawIDM.IDiagState # c.RawIDM.IDiagState
                      THEN ~r.fault /\ r.change = IDiagStateChange /\ r.err = "nil"
                      ELSE IF ~InRange(p.Attributes, INET_DIAG_INFO)
                                \/ ~InRange(c.Attributes, INET_DIAG_INFO)
                      THEN r.fault
                      ELSE (~HasInfo(p) \/ ~HasInfo(c)) =>
                              ~r.fault /\ r.change = NoTCPInfo /\ r.err = "nil"

(***************************************************************************)
(* Properties of rotation by age                                           *)
(***************************************************************************)
\* this step is a call of queue for a snapshot of cookie c whose record has
\* an open sink, in which Rotate, if called, does not fail
QueueWithSink(c) ==
    /\ QueueCalledFor(c) /\ numMarshaller >= 1 /\ c # 0
    /\ Connections[c] # None
    /\ Connections[c][1].Writer # NilWriter
    /\ rotateFailures' = rotateFailures

\* queue closed the sink of c, opened the next file and sent the snapshot
\* to it after the close-task
RotatedByAge(c) ==
    LET old == Connections[c][1].Writer
        new == Len(files')
        q == c % numMarshaller
    IN  /\ new = Len(files) + 1
        /\ files'[new].cookie = c /\ files'[new].seq = Connections[c][1].Sequence
        /\ Connections'[c][1].Writer = new
        /\ MarshalChans'[q] = MarshalChans[q] \o <<Task(None, old), SnapshotTask(c, new)>>

\* queue sent the snapshot to the sink c already had and opened no file
SentToExistingSink(c) ==
    LET old == Connections[c][1].Writer
        q == c % numMarshaller
    IN  /\ files' = files
        /\ Connections' = Connections
        /\ MarshalChans'[q] = Append(MarshalChans[q], SnapshotTask(c, old))

\* C25: in queue, whenever the connection has an open sink and now() >=
\* expiration, now() equal to expiration included, a close-task for the
\* current sink is enqueued, the sink is cleared, Rotate opens the next file
\* and the snapshot is enqueued to the new sink after the close-task; when
\* now() < expiration the snapshot is enqueued to the existing sink and no
\* file is opened.  A snapshot queued exactly one age limit after the file
\* was opened is therefore the first of a second file.
C25_RotationAtExpiration ==
    [][\A c \in Cookies :
          QueueWithSink(c) =>
             IF now' >= Connections[c][1].Expiration
             THEN RotatedByAge(c) ELSE SentToExistingSink(c)]_vars

\* C25 as the code has it: the file is rotated when now() is after the
\* expiration; at the expiration itself, and before it, the snapshot goes
\* to the existing sink and no file is opened.  When Rotate fails after the
\* close-task was sent, the sink stays cleared and the snapshot is dropped.
C25_RotationAfterExpiration ==
    [][\A c \in Cookies :
          /\ QueueWithSink(c) =>
                IF now' > Connections[c][1].Expiration
                THEN RotatedByAge(c) ELSE SentToExistingSink(c)
          /\ (/\ QueueCalledFor(c) /\ numMarshaller >= 1 /\ c # 0
              /\ Connections[c] # None
              /\ Connections[c][1].Writer # NilWriter
              /\ rotateFailures' = rotateFailures + 1) =>
                /\ now' > Connections[c][1].Expiration
                /\ files' = files
                /\ Connections'[c][1].Writer = NilWriter
                /\ MarshalChans'[c % numMarshaller] =
                      Append(MarshalChans[c % numMarshaller],
                             Task(None, Connections[c][1].Writer))]_vars

\* C25 witness: the second snapshot of a cookie was queued after the
\* expiration of its first file; the channel of its worker holds the first
\* snapshot, the close-task of the first file and then the second snapshot
\* with the second file.
C25_Witness ==
    \E c \in 1 .. MaxCookie :
        /\ numMarshaller >= 1 /\ Len(files) = 2
        /\ files[1].cookie = c /\ files[1].seq = 0
        /\ files[2].cookie = c /\ files[2].seq = 1
        /\ Connections[c] # None /\ Connections[c][1].Writer = 2
        /\ MarshalChans[c % numMarshaller] =
              <<Task(Some([cookie |-> c, id |-> 1]), 1), Task(None, 1),
                Task(Some([cookie |-> c, id |-> 2]), 2)>>

(***************************************************************************)
(* Rotate on its own: a record without a sink, any FileAgeLimit, and       *)
(* MkdirAll and zstd.NewWriter succeeding or not.                          *)
(***************************************************************************)
\* the Sequence of the record Rotate is called on
MaxSequence == 3
\* the FileAgeLimit Rotate is called with, in units of ten minutes
MaxAgeLimit == 3

\* conn.Rotate(Host, Pod, FileAgeLimit): the error, the record after the
\* call, the file it opened and what it added to metrics.NewFileCount
RotateCall(conn, FileAgeLimit, ok) ==
    IF ok
    THEN [err |-> "nil", conn |-> Rotate(conn, 1, FileAgeLimit), file |-> Some(NewSink(conn)),
          newFiles |-> 1]
    ELSE [err |-> "Rotate failed", conn |-> RotateFailed(conn), file |-> None, newFiles |-> 0]

RotateInit ==
    /\ SaverInit(1)
    /\ CompareIdle
    /\ AttrIdle
    /\ ParseIdle
    /\ rotIn \in {Some(a) : a \in [conn : [ID : 1 .. MaxCookie, Sequence : 0 .. MaxSequence,
                                           Expiration : 0 .. MaxTime, Writer : {NilWriter}],
                                   FileAgeLimit : 1 .. MaxAgeLimit,
                                   ok : BOOLEAN]}
    /\ rotOut = None

CallRotate ==
    /\ rotOut = None
    /\ rotOut' = Some(RotateCall(rotIn[1].conn, rotIn[1].FileAgeLimit, rotIn[1].ok))
    /\ UNCHANGED rotIn
    /\ UNCHANGED <<saverVars, cmpVars, attrVars, parseVars>>

SpecRotate == RotateInit /\ [][CallRotate]_vars

\* C26: each successful Rotate names the new file with the sequence held
\* before the call, then increases the expiration by exactly the
\* FileAgeLimit it was given (added to the previous expiration), increments
\* the sequence by exactly 1 and the new-file counter by exactly 1.
C26_RotateAdvancesByFileAgeLimit ==
    (rotOut # None /\ rotOut[1].err = "nil") =>
        LET before == rotIn[1].conn
            after == rotOut[1].conn
        IN  /\ rotOut[1].file # None
            /\ rotOut[1].file[1].cookie = before.ID
            /\ rotOut[1].file[1].seq = before.Sequence
            /\ after.Expiration = before.Expiration + rotIn[1].FileAgeLimit
            /\ after.Sequence = before.Sequence + 1
            /\ rotOut[1].newFiles = 1

\* What holds of Rotate: the same with ten minutes in the place of the
\* FileAgeLimit it was given.
RotateAdvancesByTenMinutes ==
    (rotOut # None /\ rotOut[1].err = "nil") =>
        LET before == rotIn[1].conn
            after == rotOut[1].conn
        IN  /\ rotOut[1].file # None
            /\ rotOut[1].file[1].cookie = before.ID
            /\ rotOut[1].file[1].seq = before.Sequence
            /\ after.Expiration = before.Expiration + RotatePeriod
            /\ after.Sequence = before.Sequence + 1
            /\ rotOut[1].newFiles = 1

(***************************************************************************)
(* Properties of the attribute table of Parse                              *)
(***************************************************************************)
\* the attributes on the wire of frame f, in order
OnWire(f) == WireAttrs(f.Data.tail).attrs

\* the largest of a set of tags, 0 for none
MaxTag(tags) == IF tags = {} THEN 0 ELSE CHOOSE t \in tags : \A u \in tags : u <= t

\* the smaller of two numbers
Min(a, b) == IF a < b THEN a ELSE b

\* C27: for every frame that parses, the attribute table returned by Parse
\* has length min(max observed tag, 2 * INET_DIAG_MAX) + 1; every attribute
\* whose tag is within the table is stored at the index equal to its tag,
\* the last occurrence for a repeated tag; absent tags are nil; and an
\* attribute whose tag exceeds the clamp is dropped without making Parse
\* fail.
C27_AttributeTableShape ==
    (parsed # None /\ parsed[1].msg # None) =>
        LET wire == OnWire(frame[1])
            table == parsed[1].msg[1].Attributes
            tags == {wire[i].Type : i \in 1 .. Len(wire)}
        IN  /\ Len(table) = Min(MaxTag(tags), 2 * INET_DIAG_MAX) + 1
            /\ \A tag \in 0 .. Len(table) - 1 :
                  LET at == {i \in 1 .. Len(wire) : wire[i].Type = tag} IN
                    IF at = {} THEN table[tag + 1] = None
                    ELSE table[tag + 1] = Some(wire[MaxTag(at)].Value)
            /\ parsed[1].err = "nil" /\ ~parsed[1].fault

\* C27 witness: a frame with tag 2 * INET_DIAG_MAX + 1 before INFO parsed:
\* the table has 2 * INET_DIAG_MAX + 1 entries, INFO at its index, and the
\* attribute above the clamp is not in it.
C27_Witness ==
    /\ parsed # None /\ parsed[1].msg # None /\ parsed[1].err = "nil"
    /\ \E i \in 1 .. Len(OnWire(frame[1])) : OnWire(frame[1])[i].Type = 2 * INET_DIAG_MAX + 1
    /\ Len(parsed[1].msg[1].Attributes) = 2 * INET_DIAG_MAX + 1
    /\ parsed[1].msg[1].Attributes[INET_DIAG_INFO + 1] = Some(InfoOf(0))
    /\ parsed[1].msg[1].Attributes[2 * INET_DIAG_MAX + 1] = None

\* a repeated tag: the value of the last occurrence is the one in the table
LastOccurrenceWins ==
    (parsed # None /\ frame[1].Type = SOCK_DIAG_BY_FAMILY /\ ~skipLocal
       /\ frame[1].Data.hdr.Len = SizeofInetDiagMsg
       /\ frame[1].Data.tail = AttrBytes(INET_DIAG_INFO - 1, Bytes(2))
                                  \o AttrBytes(INET_DIAG_INFO - 1, <<7>>)) =>
        /\ parsed[1].msg # None
        /\ parsed[1].msg[1].Attributes = <<None, Some(<<7>>)>>

(***************************************************************************)
(* Properties of the tasks and the close-task of a sink                    *)
(***************************************************************************)
\* C28: every task enqueued to a worker carries a non-nil sink for which no
\* close-task was enqueued earlier: no sink is written or closed after its
\* close-task, no sink receives two close-tasks, and the "Nil writer"
\* branch of the worker is not reached.  The tasks of a sink go through one
\* channel in order, so a task after the close-task would either follow it
\* in the channel or be in a channel when the sink is already closed.
C28_NoTaskAfterCloseTask ==
    /\ \A w \in Workers : wstate[w] # "fatal"
    /\ \A i \in 1 .. Len(files) : files[i].closes <= 1 /\ (files[i].closes = 1 <=> ~files[i].open)
    /\ \A w \in Workers : \A k \in 1 .. Len(MarshalChans[w]) :
          LET task == MarshalChans[w][k] IN
            /\ task.Writer # NilWriter
            /\ task.Writer \in 1 .. Len(files)
            /\ files[task.Writer].open
            /\ task.Message = None =>
                  \A v \in Workers : \A j \in 1 .. Len(MarshalChans[v]) :
                      (MarshalChans[v][j].Writer = task.Writer) => (v = w /\ j <= k)

\* C28 witness: the first file of a cookie was written and then closed by
\* its close-task, and a snapshot for the cookie's second file is queued.
C28_Witness ==
    /\ Len(files) = 2
    /\ files[1].cookie = files[2].cookie
    /\ ~files[1].open /\ files[1].closes = 1 /\ Len(files[1].lines) = 2
    /\ files[2].open
    /\ \E w \in Workers :
          MarshalChans[w] = <<Task(Some([cookie |-> files[2].cookie, id |-> 2]), 2)>>

(***************************************************************************)
(* Properties of endConn without marshallers                               *)
(***************************************************************************)
\* C29: for every marshaller count N >= 0 and every cookie, endConn
\* completes without a runtime fault, so the residual handling after each
\* batch and Close both run to completion even when the Saver has zero
\* marshallers.
C29_EndConnNeverFaults == ~(last.op = "endConn" /\ last.err = "panic")

\* What holds of endConn: it faults only in a Saver that has no
\* marshallers, and Close of such a Saver has no record to call it for.
EndConnFaultsOnlyWithoutMarshallers ==
    /\ (last.op = "endConn" /\ last.err = "panic") => numMarshaller = 0
    /\ numMarshaller = 0 => \A c \in Cookies : Connections[c] = None

(***************************************************************************)
(* One connection over a longer time: the Saver with one marshaller, the   *)
(* snapshots of one cookie, one snapshot and one clock reading more than   *)
(* in Spec, and Rotate never failing.                                      *)
(***************************************************************************)
\* the cookie of the connection
LongCookie == 1

\* svr.swapAndQueue(msgs[i]) for a snapshot of the connection
SwapAndQueueLong(pm, t) ==
    /\ pm.cookie = LongCookie
    /\ stats.TotalCount < MaxMsgs + 1
    /\ swapAndQueue(pm, t, TRUE)
    /\ UNCHANGED callVars

NextLong ==
    \/ RecvBatch
    \/ \E pm \in Msgs, t \in 0 .. MaxTime + 1 : SwapAndQueueLong(pm, t)
    \/ EndCycle
    \/ \E c \in Cookies : EndConnResidual(c)
    \/ ChannelClosed
    \/ \E c \in Cookies : CloseEndConn(c)
    \/ CloseChans
    \/ WaitDone
    \/ \E w \in 0 .. MaxMarshallers - 1 : Marshal(w)
    \/ \E w \in 0 .. MaxMarshallers - 1 : MarshallerDone(w)

SpecLong == InitWire /\ [][NextLong]_vars

\* in this step queue opened a file for cookie c
QueueRotated(c) == QueueCalledFor(c) /\ last'.err = "nil" /\ Len(files') = Len(files) + 1

\* the last call of swapAndQueue before this step, made at the time now, sent
\* a snapshot of cookie c to its file, and the record of c is still there
PersistedJustBefore(c) ==
    /\ enq[c] # <<>> /\ enq[c][Len(enq[c])] = stats.TotalCount
    /\ Connections[c] # None

\* this step is a call of swapAndQueue that sent a snapshot of cookie c to its file
PersistedNow(c) == enq'[c] = Append(enq[c], stats'.TotalCount)

\* C30: after queue has rotated a connection's file, the connection's
\* expiration is later than the current time, so two persisted snapshots of
\* one cookie that arrive less than one FileAgeLimit apart are never
\* written to two different files, whatever the time for which the
\* connection had no persisted snapshot before.  The two snapshots are
\* taken from two consecutive calls of swapAndQueue.
C30_ExpirationAheadAfterRotation ==
    [][\A c \in 1 .. MaxCookie :
          /\ QueueRotated(c) => Connections'[c][1].Expiration > now'
          /\ (PersistedJustBefore(c) /\ PersistedNow(c) /\ now' - now < RotatePeriod) =>
                (files' = files /\ Connections'[c][1].Writer = Connections[c][1].Writer)]_vars

\* What holds of the expiration after a rotation: it is ten minutes after
\* the expiration before it, which is later than the current time only when
\* the expiration before was less than ten minutes ago.
ExpirationAheadWhenRecent ==
    [][\A c \in 1 .. MaxCookie :
          (QueueRotated(c) /\ Connections[c] # None) =>
             /\ Connections'[c][1].Expiration = Connections[c][1].Expiration + RotatePeriod
             /\ (now' - Connections[c][1].Expiration < RotatePeriod) =>
                   Connections'[c][1].Expiration > now']_vars

(***************************************************************************)
(* Properties of the index and slice expressions of Compare                *)
(***************************************************************************)
\* one of the two tables ends before the INFO tag
TableTooShort(p, c) ==
    ~InRange(p.Attributes, INET_DIAG_INFO) \/ ~InRange(c.Attributes, INET_DIAG_INFO)

\* both snapshots have an INFO value and one of them ends before pmtuOffset
InfoTooShort(p, c) ==
    /\ HasInfo(p) /\ HasInfo(c)
    /\ (Len(InfoBytes(p)) < pmtuOffset \/ Len(InfoBytes(c)) < pmtuOffset)

\* the table of pm is shorter than that of previous
CurrentShorter(p, c) == Len(c.Attributes) < Len(p.Attributes)

\* C31: for every pair of snapshots with parseable headers Compare returns
\* a classification without an out-of-range access: also when the attribute
\* tables have different lengths, when a table is too short to contain the
\* INFO tag, and when an INFO value is shorter than pmtuOffset or the two
\* INFO values have different lengths.
C31_CompareNeverOutOfRange ==
    (CompareReturned /\ HeadersParse(cmpPrev[1], cmpCur[1])) => ~cmpResult[1].fault

\* What holds of the accesses of Compare: with parseable headers a call
\* panics only when a table ends before the INFO tag, when an INFO value
\* ends before pmtuOffset, or when pm's table is shorter than previous's;
\* and it always panics when the TCP states are equal and a table ends
\* before the INFO tag or an INFO value ends before pmtuOffset.
CompareFaultsOnlyOutOfRange ==
    (CompareReturned /\ HeadersParse(cmpPrev[1], cmpCur[1])) =>
        LET p == cmpPrev[1]
            c == cmpCur[1]
        IN  /\ cmpResult[1].fault =>
                 /\ p.RawIDM.IDiagState = c.RawIDM.IDiagState
                 /\ TableTooShort(p, c) \/ InfoTooShort(p, c) \/ CurrentShorter(p, c)
            /\ (/\ p.RawIDM.IDiagState = c.RawIDM.IDiagState
                /\ TableTooShort(p, c) \/ InfoTooShort(p, c)) => cmpResult[1].fault

\* pairs of the cases the claim lists on which Compare panics
CompareFaultOnShortTable ==
    /\ CompareReturned /\ HeadersParse(cmpPrev[1], cmpCur[1])
    /\ TableTooShort(cmpPrev[1], cmpCur[1]) /\ cmpResult[1].fault
CompareFaultOnShortInfo ==
    /\ CompareReturned /\ HeadersParse(cmpPrev[1], cmpCur[1])
    /\ InfoTooShort(cmpPrev[1], cmpCur[1]) /\ cmpResult[1].fault
CompareFaultOnShorterCurrent ==
    /\ CompareReturned /\ HeadersParse(cmpPrev[1], cmpCur[1])
    /\ ~TableTooShort(cmpPrev[1], cmpCur[1]) /\ ~InfoTooShort(cmpPrev[1], cmpCur[1])
    /\ CurrentShorter(cmpPrev[1], cmpCur[1]) /\ cmpResult[1].fault
\* a pair with a longer current table and INFO values of different lengths
\* on which Compare returns
CompareReturnsOnLongerCurrent ==
    /\ CompareReturned /\ HeadersParse(cmpPrev[1], cmpCur[1])
    /\ HasInfo(cmpPrev[1]) /\ HasInfo(cmpCur[1])
    /\ Len(cmpCur[1].Attributes) > Len(cmpPrev[1].Attributes)
    /\ Len(InfoBytes(cmpCur[1])) # Len(InfoBytes(cmpPrev[1]))
    /\ cmpPrev[1].RawIDM.IDiagState = cmpCur[1].RawIDM.IDiagState
    /\ ~cmpResult[1].fault

====
